---- MODULE Spec2Model ----
(***************************************************************************)
(* A model of the data marshaling layer of the datasheets library:         *)
(*   - the cell label codec of datasheets/helpers.py (and its predecessor  *)
(*     in gsheets/core.py),                                                *)
(*   - Tab._process_rows, the per-cell decoding loop of datasheets/tab.py, *)
(*   - Tab.fetch_data, the row normalizer and its three output shapes.     *)
(*   - helpers._make_list_of_lists and                                    *)
(*     helpers._convert_nan_and_datelike_values, the flattening and the    *)
(*     encoding of the input of an upload,                                 *)
(*   - Tab.insert_data and Tab.append_data, the calls an upload makes to   *)
(*     the sheets service.                                                 *)
(*                                                                         *)
(* Python text is modelled as a sequence of character codes, so that       *)
(* formatting and parsing are computed and not assumed.                    *)
(***************************************************************************)
EXTENDS Integers, Sequences, FiniteSets, TLC

VARIABLES
    \* ---- label codec (datasheets/helpers.py, gsheets/core.py)
    cpc,          \* position of the codec scenario
    arg,          \* the (row, col) passed to convert_cell_index_to_label
    label,        \* the text returned by helpers.convert_cell_index_to_label
    core_label,   \* the text returned by gsheets.core.convert_cell_index_to_label
    index,        \* the outcome of helpers.convert_cell_label_to_index(label)
    cexc,         \* the exception raised by the codec, "None" when none
    \* ---- Tab._process_rows (datasheets/tab.py:65-110)
    rpc,          \* position in _process_rows
    i,            \* index of the row being read (enumerate, line 77)
    cell,         \* the raw cell last read from the service's rowData
    cell_format,  \* the key selected for the conversion table (lines 86-89)
    row_values,   \* the values of the row being read
    rows,         \* the rows read so far
    exc,          \* the exception _process_rows left with, kind "None" when none
    \* ---- Tab.fetch_data (datasheets/tab.py:408-482)
    fpc,          \* position of the fetch scenario
    sheet,        \* the rowData the service holds for the tab
    headers,      \* the argument `headers` of the call
    fmt,          \* the argument `fmt` of the call
    max_idx,      \* the local max_idx of the call, NoneIdx for None
    result,       \* the value fetch_data returned
    fexc,         \* the exception fetch_data left with, "None" when none
    fexc_msg,     \* what the message of that exception names
    requests,     \* the requests the call sent to the sheets service
    \* ---- Tab.insert_data, Tab.append_data (datasheets/tab.py:484-515, 231-260)
    upc,          \* position of the upload scenario
    u_data,       \* the argument `data` of the call
    u_op,         \* the method called: "insert_data" or "append_data"
    u_index,      \* the argument `index` of the call
    u_headers,    \* the local headers of the call
    u_values,     \* the local values as _make_list_of_lists returned them
    u_body,       \* the values array of the body sent to the service
    u_tab,        \* the values the service holds for the tab
    u_calls,      \* the calls made to the service, in order
    u_exc,        \* the exception the call left with, "None" when none
    \* ---- helpers.convert_cell_label_to_index on a caller's value
    lpc,          \* position of the label scenario
    l_arg,        \* the argument `label` of the call
    l_index,      \* the (row, col) the call returned
    l_exc,        \* the exception the call left with, "None" when none
    \* ---- helpers._remove_trailing_nones, helpers._resize_row on a caller's list
    hpc,          \* position of the helper scenario
    h_array,      \* the items of the list passed, as they were at the call
    h_new_len,    \* the argument new_len of _resize_row
    h_after,      \* the items of the list passed, as they are now
    h_result,     \* the items of the list last returned
    h_alias,      \* whether the list returned is the list passed
    h_prev,       \* the items of the list returned before the last one
    \* ---- a session of calls on a Tab and its Workbook (datasheets/tab.py, workbook.py, client.py)
    grid,         \* the rows and columns of the tab, as the service holds them
    extent,       \* the rows and columns of the populated cells of the tab
    properties,   \* the gridProperties the Tab object has cached (tab.py:147)
    trace,        \* the refreshes and the requests of the last call, in order
    call,         \* the last call, with its arguments
    grid_before,  \* the rows and columns of the tab when that call began
    sexc,         \* the exception that call left with, "None" when none
    \* ---- client (datasheets/client.py)
    kpc,          \* position of the client scenario
    k_op,         \* the method called: fetch_workbook or delete_workbook
    k_filename,   \* its argument filename
    k_file_id,    \* its argument file_id
    k_drive,      \* the spreadsheets on the drive
    k_lookups,    \* the calls of _fetch_file_id made
    k_calls,      \* the requests sent to the drive service
    k_page_token, \* page_token of _fetch_info_on_items
    k_raw_info,   \* raw_info of _fetch_info_on_items
    k_todo,       \* the items the service has still to list
    k_requests,   \* the pageToken of every files().list request
    k_responses,  \* the responses to them
    k_id,         \* the file id the call works on
    k_exc,        \* the exception the call leaves with
    \* ---- convenience (datasheets/convenience.py)
    vpc,          \* position of the convenience scenario
    v_tabname,    \* the argument tabname
    v_emails,     \* the argument emails: a string or a tuple of strings
    v_role,       \* the argument role: a string or a tuple of strings
    v_notify,     \* the argument notify
    v_tabs,       \* the tabs of the new workbook on the service
    v_steps,      \* the calls made on the Client and on the Workbook
    v_todo,       \* the pairs of zip(emails, roles) still to share
    v_result,     \* what the function returned
    v_exc         \* the exception it leaves with

codec_vars == <<cpc, arg, label, core_label, index, cexc>>
rows_vars == <<rpc, i, cell, cell_format, row_values, rows, exc>>
fetch_vars == <<fpc, sheet, headers, fmt, max_idx, result, fexc, fexc_msg, requests>>
upload_vars == <<upc, u_data, u_op, u_index, u_headers, u_values, u_body, u_tab,
                 u_calls, u_exc>>
label_vars == <<lpc, l_arg, l_index, l_exc>>
helper_vars == <<hpc, h_array, h_new_len, h_after, h_result, h_alias, h_prev>>
session_vars == <<grid, extent, properties, trace, call, grid_before, sexc>>
client_vars == <<kpc, k_op, k_filename, k_file_id, k_drive, k_lookups, k_calls, k_page_token, k_raw_info, k_todo, k_requests, k_responses, k_id, k_exc>>
convenience_vars == <<vpc, v_tabname, v_emails, v_role, v_notify, v_tabs, v_steps, v_todo, v_result, v_exc>>

vars == <<cpc, arg, label, core_label, index, cexc,
          rpc, i, cell, cell_format, row_values, rows, exc,
          fpc, sheet, headers, fmt, max_idx, result, fexc, fexc_msg, requests,
          upc, u_data, u_op, u_index, u_headers, u_values, u_body, u_tab,
          u_calls, u_exc,
          lpc, l_arg, l_index, l_exc,
          hpc, h_array, h_new_len, h_after, h_result, h_alias, h_prev,
          grid, extent, properties, trace, call, grid_before, sexc,
          kpc, k_op, k_filename, k_file_id, k_drive, k_lookups, k_calls, k_page_token, k_raw_info, k_todo, k_requests, k_responses, k_id, k_exc,
          vpc, v_tabname, v_emails, v_role, v_notify, v_tabs, v_steps, v_todo, v_result, v_exc>>

----------------------------------------------------------------------------
(* Bounds of the codec scenario: the rows and columns a caller passes, and
   the indexes below 1 of tests/test_helpers.py:47 *)
MaxRow == 11
MaxCol == 730
InvalidIndexes == {-1, 0}

(* helpers.py:34-35 *)
ASCII_CHAR_OFFSET == 64
NUMBER_OF_LETTERS_IN_ALPHABET == 26

(* gsheets/core.py:32 *)
MAGIC_NUMBER == 64

NoIndex == [row |-> 0, col |-> 0]

IsUpper(c) == c >= 65 /\ c <= 90
IsLower(c) == c >= 97 /\ c <= 122
IsLetter(c) == IsUpper(c) \/ IsLower(c)
IsDigit(c) == c >= 48 /\ c <= 57

(* str.upper() on one character *)
Upper(c) == IF IsLower(c) THEN c - 32 ELSE c

(* str(n) / '{}'.format(n) for an integer n >= 0 *)
RECURSIVE DecimalStr(_)
DecimalStr(n) ==
    IF n < 10 THEN <<48 + n>>
    ELSE DecimalStr(n \div 10) \o <<48 + (n % 10)>>

(* int(s) for a text of decimal digits *)
RECURSIVE DecimalInt(_)
DecimalInt(s) ==
    IF s = <<>> THEN 0
    ELSE 10 * DecimalInt(SubSeq(s, 1, Len(s) - 1)) + (s[Len(s)] - 48)

(* helpers._get_column_letter: divmod, chr(remainder + offset), recursion *)
RECURSIVE _get_column_letter(_)
_get_column_letter(col_idx) ==
    LET quotient == col_idx \div NUMBER_OF_LETTERS_IN_ALPHABET
        remainder == col_idx % NUMBER_OF_LETTERS_IN_ALPHABET
        suffix == <<remainder + ASCII_CHAR_OFFSET>>
    IN  IF quotient = 0 THEN suffix
        ELSE _get_column_letter(quotient) \o suffix

convert_cell_index_to_label_col_only(row, col) ==
    IF col < 1
    THEN [exc |-> "ValueError", label |-> <<>>]
    ELSE [exc |-> "None", label |-> _get_column_letter(col) \o DecimalStr(row)]

(* helpers.convert_cell_index_to_label: the outcome as a record *)
convert_cell_index_to_label(row, col) ==
    IF row < 1 \/ col < 1
    THEN [exc |-> "ValueError", label |-> <<>>]
    ELSE [exc |-> "None", label |-> _get_column_letter(col) \o DecimalStr(row)]

(* gsheets.core.convert_cell_index_to_label: the while loop of lines 43-49 *)
RECURSIVE core_column_loop(_, _)
core_column_loop(col_idx, column_label) ==
    IF col_idx = 0 THEN column_label
    ELSE LET q == col_idx \div 26
             r == col_idx % 26
             remainder == IF r = 0 THEN 26 ELSE r
             next_idx == IF r = 0 THEN q - 1 ELSE q
         IN  core_column_loop(next_idx, <<remainder + MAGIC_NUMBER>> \o column_label)

core_convert_cell_index_to_label(row, col) ==
    IF row < 1 \/ col < 1
    THEN [exc |-> "ValueError", label |-> <<>>]
    ELSE [exc |-> "None", label |-> core_column_loop(col, <<>>) \o DecimalStr(row)]

\* re.match of the pattern of helpers.py:308 (a run of letters, then a digit
\* 1-9, then a run of digits): the length of the maximal run of characters
\* of a class, starting at position from
RECURSIVE RunLetters(_, _)
RunLetters(s, from) ==
    IF from <= Len(s) /\ IsLetter(s[from]) THEN 1 + RunLetters(s, from + 1) ELSE 0

RECURSIVE RunDigits(_, _)
RunDigits(s, from) ==
    IF from <= Len(s) /\ IsDigit(s[from]) THEN 1 + RunDigits(s, from + 1) ELSE 0

(* the two groups of the match, or matched = FALSE; the letter class and the
   digit class are disjoint, so backtracking over the greedy letter run
   cannot produce a match the maximal run does not *)
LabelMatch(s) ==
    LET nl == RunLetters(s, 1)
        nd == RunDigits(s, nl + 1)
    IN  IF nl >= 1 /\ nd >= 1 /\ s[nl + 1] # 48
        THEN [matched |-> TRUE,
              group1 |-> SubSeq(s, 1, nl),
              group2 |-> SubSeq(s, nl + 1, nl + nd)]
        ELSE [matched |-> FALSE, group1 |-> <<>>, group2 |-> <<>>]

(* the accumulation loop of helpers.py:317-319 *)
RECURSIVE ColumnOfLetters(_, _)
ColumnOfLetters(column_label, col) ==
    IF column_label = <<>> THEN col
    ELSE ColumnOfLetters(Tail(column_label),
             col * NUMBER_OF_LETTERS_IN_ALPHABET
                 + (Upper(Head(column_label)) - ASCII_CHAR_OFFSET))

(* helpers.convert_cell_label_to_index on a text *)
convert_cell_label_to_index(s) ==
    LET match == LabelMatch(s)
    IN  IF ~match.matched
        THEN [exc |-> "ValueError", index |-> NoIndex]
        ELSE [exc |-> "None",
              index |-> [row |-> DecimalInt(match.group2),
                         col |-> ColumnOfLetters(match.group1, 0)]]

----------------------------------------------------------------------------
(* Python values.  A value is a record of its type name t, its number n
   (int, float, bool and Decimal values; the serial day of a date or
   datetime, counted from 1899-12-30), its text s (str values; 'nan' for the
   float that is not a number; the 'type' entry of an errorValue mapping),
   m (the 'message' entry of an errorValue mapping), sec (the second of the
   day of a time or datetime) and us (its microsecond).  Numbers of the
   model are whole. *)
PyNone == [t |-> "NoneType", n |-> 0, s |-> <<>>, m |-> <<>>, sec |-> 0, us |-> 0]
PyInt(k) == [t |-> "int", n |-> k, s |-> <<>>, m |-> <<>>, sec |-> 0, us |-> 0]
PyFloat(k) == [t |-> "float", n |-> k, s |-> <<>>, m |-> <<>>, sec |-> 0, us |-> 0]
PyBool(b) == [t |-> "bool", n |-> IF b THEN 1 ELSE 0, s |-> <<>>, m |-> <<>>, sec |-> 0, us |-> 0]
PyStr(text) == [t |-> "str", n |-> 0, s |-> text, m |-> <<>>, sec |-> 0, us |-> 0]
PyDate(day) == [t |-> "date", n |-> day, s |-> <<>>, m |-> <<>>, sec |-> 0, us |-> 0]
PyTime(sec) == [t |-> "time", n |-> 0, s |-> <<>>, m |-> <<>>, sec |-> sec, us |-> 0]
PyDateTime(day) == [t |-> "datetime", n |-> day, s |-> <<>>, m |-> <<>>, sec |-> 0, us |-> 0]
PyErrorDict(type, message) == [t |-> "dict", n |-> 0, s |-> type, m |-> message, sec |-> 0, us |-> 0]

IsNumber(v) == v.t \in {"int", "float", "bool"}

(* the truth value of a value, as `if cell_value:` takes it (tab.py:92) *)
Truthy(v) ==
    CASE v.t = "NoneType" -> FALSE
      [] IsNumber(v) -> v.n # 0
      [] v.t = "str" -> v.s # <<>>
      [] OTHER -> TRUE

(* texts of the model *)
Text_foo == <<102, 111, 111>>
Text_2 == <<50>>
Text_True == <<84, 114, 117, 101>>
Text_False == <<70, 97, 108, 115, 101>>
Text_NAME == <<78, 65, 77, 69>>
Text_message == <<98, 97, 100>>

(* repr of an errorValue mapping: {'type': '...', 'message': '...'} *)
ReprErrorDict(v) ==
    <<123, 39, 116, 121, 112, 101, 39, 58, 32, 39>> \o v.s
    \o <<39, 44, 32, 39, 109, 101, 115, 115, 97, 103, 101, 39, 58, 32, 39>> \o v.m
    \o <<39, 125>>

AllDigits(text) == text # <<>> /\ \A k \in 1..Len(text) : IsDigit(text[k])

Returned(v) == [raised |-> "None", value |-> v]
Raised(kind) == [raised |-> kind, value |-> PyNone]

(* float(x) *)
py_float(x) ==
    CASE IsNumber(x) -> Returned(PyFloat(x.n))
      [] x.t = "str" -> IF AllDigits(x.s) THEN Returned(PyFloat(DecimalInt(x.s)))
                        ELSE Raised("ValueError")
      [] OTHER -> Raised("TypeError")

(* str(x) *)
py_str(x) ==
    CASE x.t = "str" -> Returned(x)
      [] x.t = "int" -> Returned(PyStr(DecimalStr(x.n)))
      [] x.t = "float" -> Returned(PyStr(DecimalStr(x.n) \o <<46, 48>>))
      [] x.t = "bool" -> Returned(PyStr(IF x.n = 1 THEN Text_True ELSE Text_False))
      [] x.t = "dict" -> Returned(PyStr(ReprErrorDict(x)))
      [] OTHER -> Returned(PyStr(<<78, 111, 110, 101>>))

(* bool(x) *)
py_bool(x) == Returned(PyBool(Truthy(x)))

(* dt.timedelta(days=x): defined for numbers only *)
TimedeltaOk(x) == IsNumber(x)

(* dt.date(1899, 12, 30) + dt.timedelta(days=x) *)
py_date(x) == IF TimedeltaOk(x) THEN Returned(PyDate(x.n)) ELSE Raised("TypeError")

(* (dt.datetime.min + dt.timedelta(days=x)).time(): whole days leave midnight *)
py_time(x) == IF TimedeltaOk(x) THEN Returned(PyTime(0)) ELSE Raised("TypeError")

(* dt.datetime(1899, 12, 30) + dt.timedelta(days=x) *)
py_datetime(x) == IF TimedeltaOk(x) THEN Returned(PyDateTime(x.n)) ELSE Raised("TypeError")

(* the keys of helpers._TYPE_CONVERSIONS; "None" is the key None *)
TypeConversionKeys ==
    {"numberValue", "stringValue", "boolValue", "NUMBER_FORMAT_TYPE_UNSPECIFIED",
     "TEXT", "NUMBER", "PERCENT", "CURRENCY", "DATE", "TIME", "DATE_TIME",
     "SCIENTIFIC", "None"}

(* helpers._TYPE_CONVERSIONS[key](x) *)
_TYPE_CONVERSIONS(key, x) ==
    CASE key = "numberValue" -> py_float(x)
      [] key = "stringValue" -> py_str(x)
      [] key = "boolValue" -> py_bool(x)
      [] key = "NUMBER_FORMAT_TYPE_UNSPECIFIED" -> Returned(x)
      [] key = "TEXT" -> py_str(x)
      [] key = "NUMBER" -> py_float(x)
      [] key = "PERCENT" -> py_float(x)
      [] key = "CURRENCY" -> py_float(x)
      [] key = "DATE" -> py_date(x)
      [] key = "TIME" -> py_time(x)
      [] key = "DATE_TIME" -> py_datetime(x)
      [] key = "SCIENTIFIC" -> py_float(x)
      [] key = "None" -> Returned(x)

(* A raw cell of the service's rowData: kind is the single key of
   effectiveValue ("absent" when the cell has no effectiveValue), value its
   value, fmt is effectiveFormat.numberFormat.type ("absent" when the cell
   has no numberFormat). *)
NumberFormats ==
    {"NUMBER_FORMAT_TYPE_UNSPECIFIED", "TEXT", "NUMBER", "PERCENT", "CURRENCY",
     "DATE", "TIME", "DATE_TIME", "SCIENTIFIC"}

RawValues ==
    [kind : {"numberValue"}, value : {PyInt(0), PyInt(2)}]
    \cup [kind : {"stringValue"}, value : {PyStr(<<>>), PyStr(Text_foo), PyStr(Text_2)}]
    \cup [kind : {"boolValue"}, value : {PyBool(FALSE), PyBool(TRUE)}]
    \cup [kind : {"errorValue"}, value : {PyErrorDict(Text_NAME, Text_message)}]
    \cup [kind : {"absent"}, value : {PyNone}]

RawCells ==
    {[kind |-> v.kind, value |-> v.value, fmt |-> f] :
        v \in RawValues, f \in NumberFormats \cup {"absent"}}

NoCell == [kind |-> "absent", value |-> PyNone, fmt |-> "none read"]
(* An exception of _process_rows: its class and what its message names (the
   value, the cell format, the type of the value, a cell coordinate);
   a part the message does not name is empty *)
NoExc == [kind |-> "None", value |-> PyNone, cell_format |-> "", value_type |-> "",
          coordinate |-> <<>>]

SelectFormat_kind_first(c) ==
    IF c.kind # "absent" THEN c.kind
    ELSE IF c.fmt # "absent" THEN c.fmt ELSE "None"

(* tab.py:81-89: the key the conversion is looked up under *)
SelectFormat(c) ==
    LET base_fmt == IF c.kind = "absent" THEN "None" ELSE c.kind
    IN  IF c.fmt # "absent" THEN c.fmt ELSE base_fmt

(* tab.py:92: the conversion is skipped for a value that is not true *)
SkipConversion_only_none(cell_value) == cell_value = PyNone

SkipConversion(cell_value) == ~Truthy(cell_value)

(* tab.py:95-96: `except ValueError: pass` *)
Swallowed_nothing(kind) == FALSE

Swallowed_everything(kind) == TRUE

Swallowed(kind) == kind = "ValueError"

(* tab.py:79-107, the body of the loop over the cells of a row: the key
   selected, the exception raised (kind "None" when none) and the value
   appended to row_values.  The lookup of line 91 precedes the test of line
   92, so a key the table does not have raises KeyError for any value. *)
ProcessCell(c) ==
    LET cell_value == c.value
        selected == SelectFormat(c)
    IN  IF selected \notin TypeConversionKeys
        THEN [cell_format |-> selected, value |-> cell_value,
              exc |-> [kind |-> "KeyError", value |-> PyNone,
                       cell_format |-> selected, value_type |-> "",
                       coordinate |-> <<>>]]
        ELSE IF SkipConversion(cell_value)
        THEN [cell_format |-> selected, value |-> cell_value, exc |-> NoExc]
        ELSE LET r == _TYPE_CONVERSIONS(selected, cell_value)
             IN  CASE r.raised = "None" ->
                        [cell_format |-> selected, value |-> r.value, exc |-> NoExc]
                   [] r.raised # "None" /\ Swallowed(r.raised) ->
                        [cell_format |-> selected, value |-> cell_value, exc |-> NoExc]
                   [] r.raised = "TypeError" /\ ~Swallowed(r.raised) ->
                        [cell_format |-> selected, value |-> cell_value,
                         exc |-> [kind |-> "TypeError", value |-> cell_value,
                                  cell_format |-> selected,
                                  value_type |-> cell_value.t,
                                  coordinate |-> <<>>]]
                   [] OTHER ->
                        [cell_format |-> selected, value |-> cell_value,
                         exc |-> [kind |-> r.raised, value |-> PyNone,
                                  cell_format |-> "", value_type |-> "",
                                  coordinate |-> <<>>]]

----------------------------------------------------------------------------
(* Tab._process_rows, one step per loop iteration.  The rowData of the
   service is read front to back, so the cells not read yet are left open:
   each step reads the next cell of any content. *)
MaxRawRows == 2
MaxRawCells == 2

RECURSIVE CountCells(_)
CountCells(rs) == IF rs = <<>> THEN 0 ELSE Len(Head(rs)) + CountCells(Tail(rs))

RowsIdle ==
    /\ rpc = "idle"
    /\ i = 0
    /\ cell = NoCell
    /\ cell_format = ""
    /\ row_values = <<>>
    /\ rows = <<>>
    /\ exc = NoExc

RowsInit ==
    /\ rpc = "rows"
    /\ i = 0
    /\ cell = NoCell
    /\ cell_format = ""
    /\ row_values = <<>>
    /\ rows = <<>>
    /\ exc = NoExc

(* line 77-78: the next row of raw_rows is taken *)
NextRow ==
    /\ rpc = "rows"
    /\ Len(rows) < MaxRawRows
    /\ i' = Len(rows)
    /\ row_values' = <<>>
    /\ rpc' = "cells"
    /\ UNCHANGED <<cell, cell_format, rows, exc>>
    /\ UNCHANGED codec_vars
    /\ UNCHANGED fetch_vars
    /\ UNCHANGED upload_vars
    /\ UNCHANGED label_vars
    /\ UNCHANGED helper_vars
    /\ UNCHANGED session_vars
    /\ UNCHANGED client_vars
    /\ UNCHANGED convenience_vars

(* lines 79-107: the next cell of the row is read and converted *)
ReadCell(c) ==
    /\ rpc = "cells"
    /\ CountCells(rows) + Len(row_values) < MaxRawCells
    /\ LET r == ProcessCell(c)
       IN  /\ cell' = c
           /\ cell_format' = r.cell_format
           /\ exc' = r.exc
           /\ IF r.exc.kind = "None"
              THEN /\ row_values' = Append(row_values, r.value)
                   /\ rpc' = "cells"
              ELSE /\ row_values' = row_values
                   /\ rpc' = "raised"
    /\ UNCHANGED <<i, rows>>
    /\ UNCHANGED codec_vars
    /\ UNCHANGED fetch_vars
    /\ UNCHANGED upload_vars
    /\ UNCHANGED label_vars
    /\ UNCHANGED helper_vars
    /\ UNCHANGED session_vars
    /\ UNCHANGED client_vars
    /\ UNCHANGED convenience_vars

(* line 109: the row has no more cells *)
AppendRow ==
    /\ rpc = "cells"
    /\ rows' = Append(rows, row_values)
    /\ rpc' = "rows"
    /\ UNCHANGED <<i, cell, cell_format, row_values, exc>>
    /\ UNCHANGED codec_vars
    /\ UNCHANGED fetch_vars
    /\ UNCHANGED upload_vars
    /\ UNCHANGED label_vars
    /\ UNCHANGED helper_vars
    /\ UNCHANGED session_vars
    /\ UNCHANGED client_vars
    /\ UNCHANGED convenience_vars

(* line 110: raw_rows has no more rows *)
ReturnRows ==
    /\ rpc = "rows"
    /\ rpc' = "returned"
    /\ UNCHANGED <<i, cell, cell_format, row_values, rows, exc>>
    /\ UNCHANGED codec_vars
    /\ UNCHANGED fetch_vars
    /\ UNCHANGED upload_vars
    /\ UNCHANGED label_vars
    /\ UNCHANGED helper_vars
    /\ UNCHANGED session_vars
    /\ UNCHANGED client_vars
    /\ UNCHANGED convenience_vars

RowsNext ==
    \/ NextRow
    \/ \E c \in RawCells : ReadCell(c)
    \/ AppendRow
    \/ ReturnRows

CodecIdle ==
    /\ cpc = "idle"
    /\ arg = NoIndex
    /\ label = <<>>
    /\ core_label = <<>>
    /\ index = NoIndex
    /\ cexc = "None"


----------------------------------------------------------------------------
(* Tab.fetch_data *)

(* Tab._process_rows as a whole: the rows, or the first exception *)
RECURSIVE ProcessRowCells(_, _)
ProcessRowCells(cells, acc) ==
    IF cells = <<>> THEN [exc |-> NoExc, row |-> acc]
    ELSE LET r == ProcessCell(Head(cells))
         IN  IF r.exc.kind # "None" THEN [exc |-> r.exc, row |-> acc]
             ELSE ProcessRowCells(Tail(cells), Append(acc, r.value))

RECURSIVE ProcessRawRows(_, _)
ProcessRawRows(raw_rows, acc) ==
    IF raw_rows = <<>> THEN [exc |-> NoExc, rows |-> acc]
    ELSE LET r == ProcessRowCells(Head(raw_rows), <<>>)
         IN  IF r.exc.kind # "None" THEN [exc |-> r.exc, rows |-> acc]
             ELSE ProcessRawRows(Tail(raw_rows), Append(acc, r.row))

_process_rows(raw_rows) == ProcessRawRows(raw_rows, <<>>)

NoneIdx == -1

Max(S) == CHOOSE x \in S : \A y \in S : y <= x

(* row.count(None) *)
CountNone(row) == Cardinality({k \in 1..Len(row) : row[k] = PyNone})

(* helpers._find_max_nonempty_row; indexes are those of Python, from 0 *)
is_not_empty_any_cell(row) == Len(row) # 0

is_not_empty(row) == CountNone(row) # Len(row)

_find_max_nonempty_row_first(data) ==
    LET locs == {k \in 1..Len(data) : is_not_empty(data[k])}
    IN  IF locs # {} THEN (CHOOSE x \in locs : \A y \in locs : x <= y) - 1 ELSE NoneIdx

_find_max_nonempty_row(data) ==
    LET nonempty_rows == [k \in 1..Len(data) |-> is_not_empty(data[k])]
        locs == {k \in 1..Len(data) : nonempty_rows[k]}
    IN  IF locs # {} THEN Max(locs) - 1 ELSE NoneIdx

_remove_trailing_nones_every_none(array) == SelectSeq(array, LAMBDA v : v # PyNone)

(* helpers._remove_trailing_nones *)
RECURSIVE _remove_trailing_nones(_)
_remove_trailing_nones(array) ==
    IF array # <<>> /\ array[Len(array)] = PyNone
    THEN _remove_trailing_nones(SubSeq(array, 1, Len(array) - 1))
    ELSE array

_resize_row_trim_only(array, new_len) ==
    IF Len(array) > new_len THEN SubSeq(array, 1, new_len) ELSE array

_resize_row_pad_only(array, new_len) ==
    array \o [k \in 1..(new_len - Len(array)) |-> PyNone]

(* helpers._resize_row *)
_resize_row(array, new_len) ==
    LET current_len == Len(array)
    IN  IF current_len > new_len
        THEN SubSeq(array, 1, new_len)
        ELSE array \o [k \in 1..(new_len - current_len) |-> PyNone]

(* equality of two values as keys of a dict: numbers compare by value *)
PyEq(a, b) == IF IsNumber(a) /\ IsNumber(b) THEN a.n = b.n ELSE a = b

(* OrderedDict(zip(keys, values)): an entry per distinct key, in the order
   of first insertion, holding the value inserted last *)
RECURSIVE OrderedDictOf(_, _, _)
OrderedDictOf(keys, values, d) ==
    IF keys = <<>> \/ values = <<>> THEN d
    ELSE LET k == Head(keys)
             v == Head(values)
             hit == {p \in 1..Len(d) : PyEq(d[p].key, k)}
             d2 == IF hit = {}
                   THEN Append(d, [key |-> k, value |-> v])
                   ELSE [p \in 1..Len(d) |->
                            IF p \in hit THEN [key |-> d[p].key, value |-> v] ELSE d[p]]
         IN  OrderedDictOf(Tail(keys), Tail(values), d2)

MaxLen(rs) == Max({Len(rs[k]) : k \in 1..Len(rs)})

NoResult == [shape |-> "none", columns |-> <<>>, data |-> <<>>, records |-> <<>>]

(* the value returned for each fmt (tab.py:451-457 and 475-482): a
   DataFrame is its column labels and its rows of cells *)
MakeResult(f, header_names, processed_rows) ==
    CASE f = "df" ->
            [shape |-> "df", columns |-> header_names, data |-> processed_rows,
             records |-> <<>>]
      [] f = "dict" ->
            [shape |-> "dict", columns |-> <<>>, data |-> <<>>,
             records |-> [k \in 1..Len(processed_rows) |->
                             OrderedDictOf(header_names, processed_rows[k], <<>>)]]
      [] OTHER ->
            [shape |-> "list", columns |-> header_names, data |-> processed_rows,
             records |-> <<>>]

EmptyResult(f) ==
    CASE f = "df" -> [shape |-> "df", columns |-> <<>>, data |-> <<>>, records |-> <<>>]
      [] f = "dict" -> [shape |-> "dict", columns |-> <<>>, data |-> <<>>, records |-> <<>>]
      [] OTHER -> [shape |-> "list", columns |-> <<>>, data |-> <<>>, records |-> <<>>]

(* tab.py:462: the rows without their trailing Nones *)
TrimRows(kept) == [k \in 1..Len(kept) |-> _remove_trailing_nones(kept[k])]

(* tab.py:464-470: the header names *)
HeaderNames(trimmed, hdrs) ==
    IF hdrs THEN Head(trimmed)
    ELSE [k \in 1..MaxLen(trimmed) |-> PyInt(k - 1)]

(* tab.py:465: with headers the first row is popped from the rows *)
DataRows(trimmed, hdrs) == IF hdrs THEN Tail(trimmed) ELSE trimmed

(* tab.py:473: every row resized to the number of headers *)
ResizeRows(body, max_width) == [k \in 1..Len(body) |-> _resize_row(body[k], max_width)]

(* tab.py:464-482, from the trimmed rows on *)
FetchFromTrimmed(trimmed, idx, hdrs, f) ==
    [exc |-> "None", max_idx |-> idx,
     result |-> MakeResult(f, HeaderNames(trimmed, hdrs),
                           ResizeRows(DataRows(trimmed, hdrs),
                                      Len(HeaderNames(trimmed, hdrs))))]

(* tab.py:449-482, from the processed rows on *)
FetchFromRows(processed_rows, idx, hdrs, f) ==
    IF idx = NoneIdx
    THEN [exc |-> "None", max_idx |-> idx, result |-> EmptyResult(f)]
    ELSE FetchFromTrimmed(TrimRows(SubSeq(processed_rows, 1, idx + 1)), idx, hdrs, f)

(* tab.py:446-449: an exception of _process_rows leaves fetch_data *)
FetchFromProcessed(p, hdrs, f) ==
    IF p.exc.kind # "None"
    THEN [exc |-> p.exc.kind, max_idx |-> NoneIdx, result |-> NoResult]
    ELSE FetchFromRows(p.rows, _find_max_nonempty_row(p.rows), hdrs, f)

(* what the message of an exception of fetch_data names: the value of fmt
   and the accepted values (tab.py:440-441) *)
NoMsg == [value |-> "", accepted |-> <<>>]

fetch_data_request_first(raw_rows, hdrs, f) ==
    IF f \notin {"df", "dict", "list"}
    THEN [exc |-> "ValueError", max_idx |-> NoneIdx, result |-> NoResult,
          msg |-> [value |-> f, accepted |-> <<"df", "dict", "list">>],
          requests |-> <<"sheets_svc.get">>]
    ELSE FetchFromProcessed(_process_rows(raw_rows), hdrs, f)
            @@ [msg |-> NoMsg, requests |-> <<"sheets_svc.get">>]

(* Tab.fetch_data(headers, fmt) on the rowData raw_rows the service holds:
   the outcome, and the requests sent to the service (tab.py:444-445) *)
fetch_data(raw_rows, hdrs, f) ==
    IF f \notin {"df", "dict", "list"}
    THEN [exc |-> "ValueError", max_idx |-> NoneIdx, result |-> NoResult,
          msg |-> [value |-> f, accepted |-> <<"df", "dict", "list">>],
          requests |-> <<>>]
    ELSE FetchFromProcessed(_process_rows(raw_rows), hdrs, f)
            @@ [msg |-> NoMsg, requests |-> <<"sheets_svc.get">>]

(* Bounds of the fetch scenario: the rows of the tab, the cells of a row and
   the cells of the tab *)
MaxSheetRows == 3
MaxSheetCols == 2
MaxSheetCells == 3

(* the cells a tab of the fetch scenario holds: an empty cell, a text, and
   the number 0 *)
FetchCells ==
    {[kind |-> "absent", value |-> PyNone, fmt |-> "absent"],
     [kind |-> "stringValue", value |-> PyStr(Text_foo), fmt |-> "absent"],
     [kind |-> "numberValue", value |-> PyInt(0), fmt |-> "absent"]}

SeqsUpTo(S, n) == UNION {[1..k -> S] : k \in 0..n}

RECURSIVE Sum(_)
Sum(lens) == IF lens = <<>> THEN 0 ELSE Head(lens) + Sum(Tail(lens))

(* the row lengths a tab of the bounds can have *)
Shapes == {lens \in SeqsUpTo(0..MaxSheetCols, MaxSheetRows) : Sum(lens) <= MaxSheetCells}

(* the rowData whose rows have the lengths lens and whose cells, row after
   row, are cells *)
RowData(lens, cells) ==
    [k \in 1..Len(lens) |->
        SubSeq(cells, Sum(SubSeq(lens, 1, k - 1)) + 1, Sum(SubSeq(lens, 1, k)))]

Sheets == UNION {{RowData(lens, cells) : cells \in [1..Sum(lens) -> FetchCells]} : lens \in Shapes}

Formats == {"df", "dict", "list", "foo"}

FetchIdle ==
    /\ fpc = "idle"
    /\ sheet = <<>>
    /\ headers = TRUE
    /\ fmt = ""
    /\ max_idx = NoneIdx
    /\ result = NoResult
    /\ fexc = "None"
    /\ fexc_msg = NoMsg
    /\ requests = <<>>

FetchInit ==
    /\ fpc = "tab"
    /\ sheet \in Sheets
    /\ headers = TRUE
    /\ fmt = ""
    /\ max_idx = NoneIdx
    /\ result = NoResult
    /\ fexc = "None"
    /\ fexc_msg = NoMsg
    /\ requests = <<>>

FetchData(hdrs, f) ==
    /\ fpc = "tab"
    /\ headers' = hdrs
    /\ fmt' = f
    /\ LET r == fetch_data(sheet, hdrs, f)
       IN  /\ max_idx' = r.max_idx
           /\ result' = r.result
           /\ fexc' = r.exc
           /\ fexc_msg' = r.msg
           /\ requests' = r.requests
           /\ fpc' = IF r.exc = "None" THEN "returned" ELSE "raised"
    /\ UNCHANGED sheet
    /\ UNCHANGED codec_vars
    /\ UNCHANGED rows_vars
    /\ UNCHANGED upload_vars
    /\ UNCHANGED label_vars
    /\ UNCHANGED helper_vars
    /\ UNCHANGED session_vars
    /\ UNCHANGED client_vars
    /\ UNCHANGED convenience_vars

FetchNext == \E hdrs \in BOOLEAN, f \in Formats : FetchData(hdrs, f)

----------------------------------------------------------------------------
(* The codec scenario: a caller converts an index to a label with both
   implementations and parses the label of helpers back. *)

CodecInit ==
    /\ cpc = "input"
    /\ arg \in [row : InvalidIndexes \cup (1..MaxRow), col : InvalidIndexes \cup (1..MaxCol)]
    /\ label = <<>>
    /\ core_label = <<>>
    /\ index = NoIndex
    /\ cexc = "None"

ConvertCellIndexToLabel ==
    /\ cpc = "input"
    /\ LET r == convert_cell_index_to_label(arg.row, arg.col)
       IN  /\ label' = r.label
           /\ cexc' = r.exc
           /\ cpc' = IF r.exc = "None" THEN "labelled" ELSE "label_raised"
    /\ UNCHANGED <<arg, core_label, index>>
    /\ UNCHANGED rows_vars
    /\ UNCHANGED fetch_vars
    /\ UNCHANGED upload_vars
    /\ UNCHANGED label_vars
    /\ UNCHANGED helper_vars
    /\ UNCHANGED session_vars
    /\ UNCHANGED client_vars
    /\ UNCHANGED convenience_vars

CoreConvertCellIndexToLabel ==
    /\ cpc = "labelled"
    /\ core_label = <<>>
    /\ core_label' = core_convert_cell_index_to_label(arg.row, arg.col).label
    /\ UNCHANGED <<cpc, arg, label, index, cexc>>
    /\ UNCHANGED rows_vars
    /\ UNCHANGED fetch_vars
    /\ UNCHANGED upload_vars
    /\ UNCHANGED label_vars
    /\ UNCHANGED helper_vars
    /\ UNCHANGED session_vars
    /\ UNCHANGED client_vars
    /\ UNCHANGED convenience_vars

ConvertCellLabelToIndex ==
    /\ cpc = "labelled"
    /\ LET r == convert_cell_label_to_index(label)
       IN  /\ index' = r.index
           /\ cexc' = r.exc
           /\ cpc' = IF r.exc = "None" THEN "parsed" ELSE "index_raised"
    /\ UNCHANGED <<arg, label, core_label>>
    /\ UNCHANGED rows_vars
    /\ UNCHANGED fetch_vars
    /\ UNCHANGED upload_vars
    /\ UNCHANGED label_vars
    /\ UNCHANGED helper_vars
    /\ UNCHANGED session_vars
    /\ UNCHANGED client_vars
    /\ UNCHANGED convenience_vars

CodecNext ==
    \/ ConvertCellIndexToLabel
    \/ CoreConvertCellIndexToLabel
    \/ ConvertCellLabelToIndex

----------------------------------------------------------------------------
(* Encoding of values for upload: helpers._convert_nan_and_datelike_values *)

Text_nan == <<110, 97, 110>>

(* float('nan'); decimal.Decimal(k), a value the json encoder of the
   transport does not accept; a time and a datetime with their microsecond *)
PyNaN == [t |-> "float", n |-> 0, s |-> Text_nan, m |-> <<>>, sec |-> 0, us |-> 0]
PyDecimal(k) == [t |-> "Decimal", n |-> k, s |-> <<>>, m |-> <<>>, sec |-> 0, us |-> 0]
PyTimeOf(sec, us) == [t |-> "time", n |-> 0, s |-> <<>>, m |-> <<>>, sec |-> sec, us |-> us]
PyDateTimeOf(day, sec, us) ==
    [t |-> "datetime", n |-> day, s |-> <<>>, m |-> <<>>, sec |-> sec, us |-> us]

(* '%0wd' % k *)
RECURSIVE ZeroPad(_, _)
ZeroPad(k, w) == IF w = 0 THEN <<>> ELSE ZeroPad(k \div 10, w - 1) \o <<48 + (k % 10)>>

(* year, month and day of the date that is `day` days after 1899-12-30 *)
CivilFromSerial(day) ==
    LET z == day - 25569 + 719468
        era == z \div 146097
        doe == z - era * 146097
        yoe == (doe - doe \div 1460 + doe \div 36524 - doe \div 146096) \div 365
        doy == doe - (365 * yoe + yoe \div 4 - yoe \div 100)
        mp == (5 * doy + 2) \div 153
        mo == IF mp < 10 THEN mp + 3 ELSE mp - 9
    IN  [year |-> yoe + era * 400 + (IF mo <= 2 THEN 1 ELSE 0),
         month |-> mo,
         day |-> doy - (153 * mp + 2) \div 5 + 1]

(* date.isoformat(): YYYY-MM-DD *)
DateText(day) ==
    LET c == CivilFromSerial(day)
    IN  ZeroPad(c.year, 4) \o <<45>> \o ZeroPad(c.month, 2) \o <<45>> \o ZeroPad(c.day, 2)

(* time.isoformat(): HH:MM:SS, followed by .ffffff when the microsecond is
   not 0 *)
TimeText(sec, us) ==
    ZeroPad(sec \div 3600, 2) \o <<58>> \o ZeroPad((sec \div 60) % 60, 2) \o <<58>>
        \o ZeroPad(sec % 60, 2)
        \o (IF us # 0 THEN <<46>> \o ZeroPad(us, 6) ELSE <<>>)

(* str(item) for a date, a time or a datetime (helpers.py:55) *)
str_datelike(item) ==
    CASE item.t = "date" -> PyStr(DateText(item.n))
      [] item.t = "time" -> PyStr(TimeText(item.sec, item.us))
      [] OTHER -> PyStr(DateText(item.n) \o <<32>> \o TimeText(item.sec, item.us))

(* isinstance(item, np.float) and np.isnan(item): bool and int are not
   floats *)
IsNanFloat(item) == item.t = "float" /\ item.s = Text_nan

(* isinstance(item, (dt.date, dt.datetime, dt.time)) *)
IsDatelike(item) == item.t \in {"date", "datetime", "time"}

(* helpers.py:52-57: the branch taken for one item *)
ConvertItem(item) ==
    IF IsNanFloat(item) THEN PyNone
    ELSE IF IsDatelike(item) THEN str_datelike(item)
    ELSE item

(* helpers._convert_nan_and_datelike_values *)
_convert_nan_and_datelike_values(values) ==
    [r \in 1..Len(values) |-> [c \in 1..Len(values[r]) |-> ConvertItem(values[r][c])]]

----------------------------------------------------------------------------
(* Flattening of the input of an upload: helpers._make_list_of_lists.

   The input `data` is a record of its Python type (type), its elements
   (elems, for a list, a tuple or a str) and, for a pandas.DataFrame, its
   frame (df).  An element is a record of its type t ("list", "dict" or the
   type of a scalar), its cells (the items of a list, the values of a dict in
   insertion order, the scalar itself) and its keys (of a dict, in insertion
   order).  A frame is its column labels (columns: one tuple of level labels
   per column), the number of levels of its columns (nlevels, which the
   code never reads), whether the columns are a MultiIndex (is_multiindex), the
   names of the levels of the row index (index_names), whether the row index
   is a MultiIndex (index_multi), and its rows: the tuple of index values
   (index) and the cells (cells) of each. *)

NoFrame == [columns |-> <<>>, nlevels |-> 0, is_multiindex |-> FALSE,
            index_names |-> <<>>, index_multi |-> FALSE, rows |-> <<>>]

ListElem(cells) == [t |-> "list", cells |-> cells, keys |-> <<>>]
DictElem(keys, cells) == [t |-> "dict", cells |-> cells, keys |-> keys]
ScalarElem(v) == [t |-> v.t, cells |-> <<v>>, keys |-> <<>>]

(* isinstance(data, collections.Sequence) *)
IsSequence(data) == data.type \in {"list", "tuple", "str"}

(* isinstance(x, collections.Mapping) *)
IsMapping(elem) == elem.t = "dict"

(* zip of the unpacked data.columns: one tuple per level, none when there
   is no column *)
ZipColumns(columns) ==
    IF columns = <<>> THEN <<>>
    ELSE [l \in 1..Len(columns[1]) |-> [c \in 1..Len(columns) |-> columns[c][l]]]

(* data.columns.tolist() of columns that are not a MultiIndex *)
ColumnsToList(columns) == [c \in 1..Len(columns) |-> columns[c][1]]

(* 'index' + str(i) *)
IndexName(k) == PyStr(<<105, 110, 100, 101, 120>> \o DecimalStr(k))

_process_df_index_names_keep(df) == df.index_names

(* helpers._process_df_index_names *)
_process_df_index_names(df) ==
    IF Truthy(df.index_names[1]) THEN df.index_names
    ELSE [k \in 1..Len(df.index_names) |-> IndexName(k - 1)]

(* helpers._process_df_headers *)
_process_df_headers(df, with_index) ==
    LET idx_names == _process_df_index_names(df)
        column_names == ZipColumns(df.columns)
    IN  IF with_index /\ df.is_multiindex
        THEN [l \in 1..Len(column_names) |-> idx_names \o column_names[l]]
        ELSE IF with_index /\ ~df.is_multiindex
        THEN <<idx_names \o ColumnsToList(df.columns)>>
        ELSE IF ~with_index /\ df.is_multiindex
        THEN column_names
        ELSE <<ColumnsToList(df.columns)>>

(* helpers._process_df_values: a row of itertuples(index=True) starts with
   the index entry, which is a tuple for a MultiIndex and a scalar
   otherwise; either way the entries of the index come first *)
_process_df_values(df, with_index) ==
    [r \in 1..Len(df.rows) |->
        IF with_index /\ df.index_multi
        THEN df.rows[r].index \o df.rows[r].cells
        ELSE IF with_index
        THEN <<df.rows[r].index[1]>> \o df.rows[r].cells
        ELSE df.rows[r].cells]

(* row[key] on a mapping: the value, or KeyError *)
HasKey(elem, key) == \E k \in 1..Len(elem.keys) : elem.keys[k] = key
GetItem(elem, key) == elem.cells[CHOOSE k \in 1..Len(elem.keys) : elem.keys[k] = key]

(* helpers.py:117-120: the first exception of the loop over the rows, "None"
   when every row yields its values *)
RECURSIVE DictRowsExc(_, _)
DictRowsExc(elems, keys) ==
    IF elems = <<>> THEN "None"
    ELSE IF keys # <<>> /\ ~IsMapping(Head(elems)) THEN "TypeError"
    ELSE IF \E k \in 1..Len(keys) : ~HasKey(Head(elems), keys[k]) THEN "KeyError"
    ELSE DictRowsExc(Tail(elems), keys)

DictRows_own_order(elems, keys) == [r \in 1..Len(elems) |-> elems[r].cells]

(* helpers.py:117-120: the rows of values, fetched by the keys of the first
   mapping *)
DictRows(elems, keys) ==
    [r \in 1..Len(elems) |-> [k \in 1..Len(keys) |-> GetItem(elems[r], keys[k])]]

(* helpers._make_list_of_lists(data, index): the exception it leaves with
   ("None" when it returns), and the headers and values it returns *)
_make_list_of_lists(data, with_index) ==
    IF data.type = "DataFrame"
    THEN [exc |-> "None",
          headers |-> _process_df_headers(data.df, with_index),
          values |-> _process_df_values(data.df, with_index)]
    ELSE IF IsSequence(data) /\ data.elems = <<>>
    THEN [exc |-> "IndexError", headers |-> <<>>, values |-> <<>>]
    ELSE IF IsSequence(data) /\ IsMapping(data.elems[1])
    THEN IF DictRowsExc(data.elems, data.elems[1].keys) # "None"
         THEN [exc |-> DictRowsExc(data.elems, data.elems[1].keys),
               headers |-> <<>>, values |-> <<>>]
         ELSE [exc |-> "None",
               headers |-> <<data.elems[1].keys>>,
               values |-> DictRows(data.elems, data.elems[1].keys)]
    ELSE IF data.type = "list" /\ data.elems[1].t = "list"
    THEN [exc |-> "None", headers |-> <<>>,
          values |-> [r \in 1..Len(data.elems) |-> data.elems[r].cells]]
    ELSE [exc |-> "ValueError", headers |-> <<>>, values |-> <<>>]

(* iter(row): a list, a tuple, a dict and a str can be iterated *)
IsIterable(elem) == elem.t \in {"list", "tuple", "dict", "str"}

(* helpers.py:47-49 on the values of helpers.py:121-123: `values = data`
   hands every element of data to `for item in row`, and only data[0] was
   tested to be a list; a row that cannot be iterated raises TypeError
   before the encoder returns anything *)
ConvertExc(data) ==
    IF /\ data.type = "list"
       /\ data.elems # <<>>
       /\ ~IsMapping(data.elems[1])
       /\ data.elems[1].t = "list"
       /\ \E r \in 1..Len(data.elems) : ~IsIterable(data.elems[r])
    THEN "TypeError"
    ELSE "None"

----------------------------------------------------------------------------
(* The upload scenario: Tab.insert_data and Tab.append_data on a tab that
   holds data, against a transport whose calls may fail. *)

(* Bounds of the upload scenario: the rows and the cells of a list of lists,
   the mappings of a list of dicts, the columns and rows of a DataFrame *)
MaxUploadRows == 2
MaxUploadCells == 2
MaxMappings == 2
MaxFrameCols == 2
MaxFrameRows == 2

(* the cells a caller uploads: 2016-01-01 is day 42370, 10:20:30 is second
   37230 (tests/test_helpers.py:27-36) *)
UploadCells ==
    {PyNone, PyInt(1), PyStr(Text_foo), PyBool(TRUE), PyNaN, PyDate(42370),
     PyTimeOf(37230, 0), PyDateTimeOf(42370, 37230, 0), PyDateTimeOf(42370, 37230, 5),
     PyDecimal(1)}

UploadShapes ==
    {lens \in SeqsUpTo(0..MaxUploadCells, MaxUploadRows) :
        lens # <<>> /\ Sum(lens) <= MaxUploadCells}

Input(type, elems, df) == [type |-> type, elems |-> elems, df |-> df]

(* lists of lists: the rows of lengths lens filled, row after row, from the
   first Sum(lens) of the cells *)
ListInputs ==
    {Input("list",
           [k \in 1..Len(lens) |-> ListElem(RowData(lens, cells)[k])],
           NoFrame) :
        lens \in UploadShapes, cells \in [1..MaxUploadCells -> UploadCells]}

Key_a == PyStr(<<97>>)
Key_b == PyStr(<<98>>)
MappingCells == {PyInt(1), PyDate(42370)}

(* the mappings over the keys 'a' and 'b', in every insertion order *)
Mappings ==
    UNION {{DictElem(keys, cells) : cells \in [1..Len(keys) -> MappingCells]} :
              keys \in {<<>>, <<Key_a>>, <<Key_b>>, <<Key_a, Key_b>>, <<Key_b, Key_a>>}}

(* lists and tuples of mappings *)
DictInputs ==
    {Input(type, elems, NoFrame) :
        type \in {"list", "tuple"},
        elems \in UNION {[1..k -> Mappings] : k \in 1..MaxMappings}}

(* the label of column c at level l, the index value of row r at level k,
   the name of index level k, the cell of row r and column c *)
ColumnLabel(c, l) == PyStr(<<99, 48 + c, 48 + l>>)
IndexValue(r, k) == PyInt(100 * r + k)
LevelName(k) == PyStr(<<114, 48 + k>>)
FrameCell(r, c) == PyInt(10 * r + c)

Frame(multi, L, imulti, names, C, R) ==
    [columns |-> [c \in 1..C |-> [l \in 1..L |-> ColumnLabel(c, l)]],
     nlevels |-> L,
     is_multiindex |-> multi,
     index_names |-> names,
     index_multi |-> imulti,
     rows |-> [r \in 1..R |->
                 [index |-> [k \in 1..Len(names) |-> IndexValue(r, k)],
                  cells |-> [c \in 1..C |-> FrameCell(r, c)]]]]

(* an Index has one level; a MultiIndex has one level or more *)
IndexKinds == {<<FALSE, 1>>, <<TRUE, 1>>, <<TRUE, 2>>}

(* the names of an index of K levels: each None or a text *)
IndexNames(K) ==
    {[k \in 1..K |-> IF k \in named THEN LevelName(k) ELSE PyNone] : named \in SUBSET (1..K)}

FramesOf(ck, ik) ==
    {Input("DataFrame", <<>>, Frame(ck[1], ck[2], ik[1], names, C, R)) :
        names \in IndexNames(ik[2]),
        C \in 0..MaxFrameCols,
        R \in 0..MaxFrameRows}

FrameInputs == UNION {FramesOf(ck, ik) : ck \in IndexKinds, ik \in IndexKinds}

(* inputs of other shapes: a plain dict (tests/test_helpers.py:229), an
   empty list, an empty tuple, a tuple of lists, a list of scalars, a list
   whose first element is a list and whose second is a scalar, None, the
   text 'foo' and the empty text *)
OtherInputs ==
    {Input("dict", <<>>, NoFrame),
     Input("list", <<>>, NoFrame),
     Input("tuple", <<>>, NoFrame),
     Input("tuple", <<ListElem(<<PyInt(1)>>)>>, NoFrame),
     Input("list", <<ScalarElem(PyInt(1))>>, NoFrame),
     Input("list", <<ListElem(<<PyInt(1)>>), ScalarElem(PyInt(1))>>, NoFrame),
     Input("list", <<ListElem(<<PyInt(1)>>), ScalarElem(PyNone)>>, NoFrame),
     Input("NoneType", <<>>, NoFrame),
     Input("str", [k \in 1..3 |-> ScalarElem(PyStr(<<Text_foo[k]>>))], NoFrame),
     Input("str", <<>>, NoFrame)}

Inputs == ListInputs \cup DictInputs \cup FrameInputs \cup OtherInputs

(* the values the tab holds before the upload *)
PreviousData == <<<<PyStr(Text_foo)>>>>

UploadIdle ==
    /\ upc = "idle"
    /\ u_data = Input("NoneType", <<>>, NoFrame)
    /\ u_op = ""
    /\ u_index = TRUE
    /\ u_headers = <<>>
    /\ u_values = <<>>
    /\ u_body = <<>>
    /\ u_tab = <<>>
    /\ u_calls = <<>>
    /\ u_exc = "None"

UploadInit ==
    /\ upc = "input"
    /\ u_data \in Inputs
    /\ u_op = ""
    /\ u_index = TRUE
    /\ u_headers = <<>>
    /\ u_values = <<>>
    /\ u_body = <<>>
    /\ u_tab = PreviousData
    /\ u_calls = <<>>
    /\ u_exc = "None"

(* tab.py:502 and tab.py:250: the first statement of insert_data and of
   append_data *)
MakeListOfLists(op, idx) ==
    /\ upc = "input"
    /\ u_op' = op
    /\ u_index' = idx
    /\ LET r == _make_list_of_lists(u_data, idx)
       IN  /\ u_headers' = r.headers
           /\ u_values' = r.values
           /\ u_exc' = r.exc
           /\ upc' = IF r.exc = "None" THEN "listed" ELSE "raised"
    /\ UNCHANGED <<u_data, u_body, u_tab, u_calls>>
    /\ UNCHANGED codec_vars
    /\ UNCHANGED rows_vars
    /\ UNCHANGED fetch_vars
    /\ UNCHANGED label_vars
    /\ UNCHANGED helper_vars
    /\ UNCHANGED session_vars
    /\ UNCHANGED client_vars
    /\ UNCHANGED convenience_vars

(* tab.py:504-505, Tab.clear_data (tab.py:315-317): values().clear is sent;
   the service empties the tab, or the call fails *)
ClearData(ok) ==
    /\ upc = "listed"
    /\ u_op = "insert_data"
    /\ u_calls' = Append(u_calls, "values.clear")
    /\ IF ok
       THEN /\ u_tab' = <<>>
            /\ upc' = "cleared"
            /\ u_exc' = u_exc
       ELSE /\ u_tab' = u_tab
            /\ upc' = "raised"
            /\ u_exc' = "HttpError"
    /\ UNCHANGED <<u_data, u_op, u_index, u_headers, u_values, u_body>>
    /\ UNCHANGED codec_vars
    /\ UNCHANGED rows_vars
    /\ UNCHANGED fetch_vars
    /\ UNCHANGED label_vars
    /\ UNCHANGED helper_vars
    /\ UNCHANGED session_vars
    /\ UNCHANGED client_vars
    /\ UNCHANGED convenience_vars

(* tab.py:506-510: the values are encoded, which may raise, and
   values().update is sent; the service writes them from the first cell of
   the tab, or the call fails *)
UpdateValues(ok) ==
    /\ upc = "cleared"
    /\ IF ConvertExc(u_data) # "None"
       THEN /\ u_body' = u_body
            /\ u_calls' = u_calls
            /\ u_tab' = u_tab
            /\ upc' = "raised"
            /\ u_exc' = ConvertExc(u_data)
       ELSE /\ u_body' = _convert_nan_and_datelike_values(u_headers \o u_values)
            /\ u_calls' = Append(u_calls, "values.update")
            /\ IF ok
               THEN /\ u_tab' = u_body'
                    /\ upc' = "sent"
                    /\ u_exc' = u_exc
               ELSE /\ u_tab' = u_tab
                    /\ upc' = "raised"
                    /\ u_exc' = "HttpError"
    /\ UNCHANGED <<u_data, u_op, u_index, u_headers, u_values>>
    /\ UNCHANGED codec_vars
    /\ UNCHANGED rows_vars
    /\ UNCHANGED fetch_vars
    /\ UNCHANGED label_vars
    /\ UNCHANGED helper_vars
    /\ UNCHANGED session_vars
    /\ UNCHANGED client_vars
    /\ UNCHANGED convenience_vars

(* tab.py:251-255: the values are encoded, which may raise, and
   values().append is sent; the service adds them below the data of the tab,
   or the call fails *)
AppendValues(ok) ==
    /\ upc = "listed"
    /\ u_op = "append_data"
    /\ IF ConvertExc(u_data) # "None"
       THEN /\ u_body' = u_body
            /\ u_calls' = u_calls
            /\ u_tab' = u_tab
            /\ upc' = "raised"
            /\ u_exc' = ConvertExc(u_data)
       ELSE /\ u_body' = _convert_nan_and_datelike_values(u_values)
            /\ u_calls' = Append(u_calls, "values.append")
            /\ IF ok
               THEN /\ u_tab' = u_tab \o u_body'
                    /\ upc' = "sent"
                    /\ u_exc' = u_exc
               ELSE /\ u_tab' = u_tab
                    /\ upc' = "raised"
                    /\ u_exc' = "HttpError"
    /\ UNCHANGED <<u_data, u_op, u_index, u_headers, u_values>>
    /\ UNCHANGED codec_vars
    /\ UNCHANGED rows_vars
    /\ UNCHANGED fetch_vars
    /\ UNCHANGED label_vars
    /\ UNCHANGED helper_vars
    /\ UNCHANGED session_vars
    /\ UNCHANGED client_vars
    /\ UNCHANGED convenience_vars

(* tab.py:512-515 and tab.py:257-260: the calls that follow the upload, none
   of which writes values: autoformat when asked for, then
   _update_tab_properties *)
FinishCalls(autoformat) ==
    (IF autoformat THEN <<"autoformat">> ELSE <<>>) \o <<"_update_tab_properties">>

(* the first `sent` of these calls are made; the last of them fails unless
   all were made *)
FinishUpload(autoformat, sent) ==
    /\ upc = "sent"
    /\ sent \in 1..Len(FinishCalls(autoformat)) + 1
    /\ IF sent > Len(FinishCalls(autoformat))
       THEN /\ u_calls' = u_calls \o FinishCalls(autoformat)
            /\ upc' = "done"
            /\ u_exc' = u_exc
       ELSE /\ u_calls' = u_calls \o SubSeq(FinishCalls(autoformat), 1, sent)
            /\ upc' = "raised"
            /\ u_exc' = "HttpError"
    /\ UNCHANGED <<u_data, u_op, u_index, u_headers, u_values, u_body, u_tab>>
    /\ UNCHANGED codec_vars
    /\ UNCHANGED rows_vars
    /\ UNCHANGED fetch_vars
    /\ UNCHANGED label_vars
    /\ UNCHANGED helper_vars
    /\ UNCHANGED session_vars
    /\ UNCHANGED client_vars
    /\ UNCHANGED convenience_vars

UploadNext ==
    \/ \E op \in {"insert_data", "append_data"}, idx \in BOOLEAN : MakeListOfLists(op, idx)
    \/ \E ok \in BOOLEAN : ClearData(ok)
    \/ \E ok \in BOOLEAN : UpdateValues(ok)
    \/ \E ok \in BOOLEAN : AppendValues(ok)
    \/ \E autoformat \in BOOLEAN, sent \in 1..3 : FinishUpload(autoformat, sent)

----------------------------------------------------------------------------
(* The label scenario: a caller passes a value of its own to
   helpers.convert_cell_label_to_index. *)

(* Bound of the label scenario: the length of the text passed *)
MaxLabelLen == 3

(* the characters of the texts passed: A, Z, a, 0, 1 and the space *)
LabelChars == {65, 90, 97, 48, 49, 32}

(* the values passed: texts, and the values 1 (tests/test_helpers.py:68)
   and None *)
LabelArgs ==
    {PyStr(text) : text \in UNION {[1..k -> LabelChars] : k \in 0..MaxLabelLen}}
        \cup {PyInt(1), PyNone}

(* helpers.convert_cell_label_to_index on any value: the isinstance test of
   lines 302-303, then the parse of the text *)
CheckedLabelToIndex(label_arg) ==
    IF label_arg.t # "str" THEN [exc |-> "ValueError", index |-> NoIndex]
    ELSE convert_cell_label_to_index(label_arg.s)

LabelIdle ==
    /\ lpc = "idle"
    /\ l_arg = PyNone
    /\ l_index = NoIndex
    /\ l_exc = "None"

LabelInit ==
    /\ lpc = "input"
    /\ l_arg \in LabelArgs
    /\ l_index = NoIndex
    /\ l_exc = "None"

ParseLabel ==
    /\ lpc = "input"
    /\ LET r == CheckedLabelToIndex(l_arg)
       IN  /\ l_index' = r.index
           /\ l_exc' = r.exc
           /\ lpc' = IF r.exc = "None" THEN "parsed" ELSE "raised"
    /\ UNCHANGED l_arg
    /\ UNCHANGED codec_vars
    /\ UNCHANGED rows_vars
    /\ UNCHANGED fetch_vars
    /\ UNCHANGED upload_vars
    /\ UNCHANGED helper_vars
    /\ UNCHANGED session_vars
    /\ UNCHANGED client_vars
    /\ UNCHANGED convenience_vars

LabelNext == ParseLabel

----------------------------------------------------------------------------
(* The helper scenario: a caller passes a list of its own to
   helpers._resize_row or, once or twice in a row, to
   helpers._remove_trailing_nones. *)

(* Bounds of the helper scenario: the length of the list passed and the
   length asked for *)
MaxArrayLen == 3
MaxNewLen == 4

(* the items of the list passed: None, a number and the empty text, which is
   falsy and is not None *)
HelperCells == {PyNone, PyInt(1), PyStr(<<>>)}

HelperArrays == UNION {[1..k -> HelperCells] : k \in 0..MaxArrayLen}

HelperIdle ==
    /\ hpc = "idle"
    /\ h_array = <<>>
    /\ h_new_len = 0
    /\ h_after = <<>>
    /\ h_result = <<>>
    /\ h_alias = FALSE
    /\ h_prev = <<>>

HelperInit ==
    /\ hpc = "input"
    /\ h_array \in HelperArrays
    /\ h_new_len \in 0..MaxNewLen
    /\ h_after = h_array
    /\ h_result = <<>>
    /\ h_alias = FALSE
    /\ h_prev = <<>>

(* helpers.py:211-217: both branches build a list of their own, by a slice
   or by a concatenation; no statement changes the list passed *)
ResizeRow ==
    /\ hpc = "input"
    /\ h_result' = _resize_row(h_after, h_new_len)
    /\ h_alias' = FALSE
    /\ h_after' = h_after
    /\ h_prev' = h_result
    /\ hpc' = "resized"
    /\ UNCHANGED <<h_array, h_new_len>>
    /\ UNCHANGED codec_vars
    /\ UNCHANGED rows_vars
    /\ UNCHANGED fetch_vars
    /\ UNCHANGED upload_vars
    /\ UNCHANGED label_vars
    /\ UNCHANGED session_vars
    /\ UNCHANGED client_vars
    /\ UNCHANGED convenience_vars

(* helpers.py:194-196: the items are popped from the list passed, and that
   list is returned; a second call is given the list the first returned *)
RemoveTrailingNones ==
    /\ hpc \in {"input", "trimmed"}
    /\ h_result' = _remove_trailing_nones(h_after)
    /\ h_alias' = TRUE
    /\ h_after' = h_result'
    /\ h_prev' = h_result
    /\ hpc' = IF hpc = "input" THEN "trimmed" ELSE "trimmed_twice"
    /\ UNCHANGED <<h_array, h_new_len>>
    /\ UNCHANGED codec_vars
    /\ UNCHANGED rows_vars
    /\ UNCHANGED fetch_vars
    /\ UNCHANGED upload_vars
    /\ UNCHANGED label_vars
    /\ UNCHANGED session_vars
    /\ UNCHANGED client_vars
    /\ UNCHANGED convenience_vars

HelperNext ==
    \/ ResizeRow
    \/ RemoveTrailingNones

----------------------------------------------------------------------------
(* The session scenario: the user-facing calls of a Tab and of its Workbook,
   and attribute lookups on the Client, the Workbook and the Tab, made one
   after the other on a tab that another client may resize in between.

   A call is computed on a record st of what it reads and writes: the grid
   of the tab on the service (grid: rows, cols), the extent of its populated
   cells (extent), the gridProperties the Tab object has cached
   (properties), the exception the call leaves with (exc), and the trace of
   the call (trace): one entry for every invocation of
   Client._refresh_token_if_needed and one for every request sent to the
   service, in order. *)

(* the text of an attribute name: an optional leading '_' and the rest *)
Public(rest) == [under |-> FALSE, rest |-> rest]
Private(rest) == [under |-> TRUE, rest |-> rest]

(* attr.startswith('_') *)
startswith_underscore(attr) == attr.under

(* the functions defined in the body of each class that take self: looked
   up on an instance they are bound methods (types.MethodType) *)
ClientMethods ==
    {Private("_init__"), Private("_getattribute__"), Private("_repr__"),
     Private("authenticate"), Private("refresh_token_if_needed"),
     Private("retrieve_client_credentials"), Private("fetch_new_client_credentials"),
     Private("fetch_file_id"), Private("fetch_info_on_items"),
     Private("get_service_credentials"), Public("create_workbook"),
     Public("delete_workbook"), Public("fetch_folders"), Public("fetch_workbook"),
     Public("fetch_workbooks_info")}

WorkbookMethods ==
    {Private("_init__"), Private("_getattribute__"), Private("_repr__"),
     Private("fetch_permission_id"), Public("share"), Public("batch_update"),
     Public("create_tab"), Public("delete_tab"), Public("fetch_tab"), Public("unshare"),
     Public("fetch_tab_names"), Public("fetch_permissions")}

TabMethods ==
    {Private("_init__"), Private("_getattribute__"), Private("_repr__"),
     Private("add_rows_or_columns"), Private("update_tab_properties"),
     Public("add_rows"), Public("add_columns"), Public("align_cells"),
     Public("alter_dimensions"), Public("append_data"), Public("autoformat"),
     Public("autosize_columns"), Public("clear_data"), Public("format_font"),
     Public("format_headers"), Public("fetch_data"), Public("insert_data")}

Methods(cls) ==
    CASE cls = "Client" -> ClientMethods
      [] cls = "Workbook" -> WorkbookMethods
      [] cls = "Tab" -> TabMethods

(* the other attributes of an instance: instance variables, properties
   (whose lookup gives their value) and the static method of Tab (whose
   lookup gives a plain function) *)
ClientNonMethods ==
    {Public("is_service"), Public("use_storage"), Public("user_agent"), Public("http"),
     Public("drive_svc"), Public("sheets_svc"), Public("credentials"), Public("email")}

WorkbookNonMethods ==
    {Public("filename"), Public("file_id"), Private("client"), Public("drive_svc"),
     Public("sheets_svc"), Public("url"), Public("client")}

TabNonMethods ==
    {Public("tabname"), Private("workbook"), Public("drive_svc"), Public("sheets_svc"),
     Public("properties"), Public("url"), Public("ncols"), Public("nrows"),
     Public("tab_id"), Public("workbook"), Private("process_rows")}

NonMethods(cls) ==
    CASE cls = "Client" -> ClientNonMethods
      [] cls = "Workbook" -> WorkbookNonMethods
      [] cls = "Tab" -> TabNonMethods

Classes == {"Client", "Workbook", "Tab"}

(* isinstance(requested_attr, types.MethodType) *)
IsMethodType(cls, attr) == attr \in Methods(cls)

(* an invocation of Client._refresh_token_if_needed (client.py:92-95) *)
Refresh(st) ==
    IF st.exc # "None" THEN st
    ELSE [st EXCEPT !.trace = Append(@, "_refresh_token_if_needed")]

(* the condition under which __getattribute__ refreshes: client.py:72-74,
   workbook.py:45-46, tab.py:52-53; only Client tests for its credentials *)
RefreshesOnLookup_without_credentials(cls, attr, has_credentials) ==
    /\ IsMethodType(cls, attr)
    /\ ~startswith_underscore(attr)

RefreshesOnLookup(cls, attr, has_credentials) ==
    /\ IsMethodType(cls, attr)
    /\ ~startswith_underscore(attr)
    /\ cls = "Client" => has_credentials

(* Client.__getattribute__ (client.py:60-77), Workbook.__getattribute__
   (workbook.py:33-49) and Tab.__getattribute__ (tab.py:40-56): the
   attribute is fetched, which for a property looks up the instance variable
   behind it; then, under the condition above, the client is reached
   (self.workbook and .client are properties, hasattr looks `credentials`
   up), its _refresh_token_if_needed is looked up and invoked *)
RECURSIVE __getattribute__(_, _, _, _)
__getattribute__(st, cls, attr, has_credentials) ==
    IF st.exc # "None" THEN st ELSE
    LET requested ==
            IF cls = "Tab" /\ attr = Public("workbook")
            THEN __getattribute__(st, "Tab", Private("workbook"), has_credentials)
            ELSE IF cls = "Tab" /\ attr \in {Public("ncols"), Public("nrows"), Public("tab_id")}
            THEN __getattribute__(st, "Tab", Public("properties"), has_credentials)
            ELSE IF cls = "Workbook" /\ attr = Public("client")
            THEN __getattribute__(st, "Workbook", Private("client"), has_credentials)
            ELSE st
        at_workbook ==
            IF cls = "Tab"
            THEN __getattribute__(requested, "Tab", Public("workbook"), has_credentials)
            ELSE requested
        at_client ==
            IF cls = "Client"
            THEN __getattribute__(at_workbook, "Client", Public("credentials"), has_credentials)
            ELSE __getattribute__(at_workbook, "Workbook", Public("client"), has_credentials)
    IN  IF RefreshesOnLookup(cls, attr, has_credentials)
        THEN Refresh(__getattribute__(at_client, "Client",
                                      Private("refresh_token_if_needed"), has_credentials))
        ELSE requested

(* a lookup on an object of a session: the client has been constructed *)
Get(st, cls, attr) == __getattribute__(st, cls, attr, TRUE)

(* a request sent to the service *)
Sent(st, request) ==
    IF st.exc # "None" THEN st
    ELSE [st EXCEPT !.trace = Append(@, request)]

(* None as the value of an argument that is a number otherwise *)
NoneArg == -1

(* `x or y` for x a number or None: y when x is None or 0 *)
Or(x, y) == IF x = NoneArg \/ x = 0 THEN y ELSE x

Min2(a, b) == IF a < b THEN a ELSE b
Max2(a, b) == IF a > b THEN a ELSE b

Dims(r, c) == [rows |-> r, cols |-> c]

(* the requests of a batchUpdate body *)
AppendDimension(kind, n) == [request |-> "appendDimension", kind |-> kind, n |-> n, rows |-> 0, cols |-> 0]
UpdateSheetProperties(r, c) == [request |-> "updateSheetProperties", kind |-> "", n |-> 0, rows |-> r, cols |-> c]
AddSheet == [request |-> "addSheet", kind |-> "", n |-> 0, rows |-> 0, cols |-> 0]
DeleteSheet == [request |-> "deleteSheet", kind |-> "", n |-> 0, rows |-> 0, cols |-> 0]
Formatting == [request |-> "formatting", kind |-> "", n |-> 0, rows |-> 0, cols |-> 0]

(* what the service does with a batchUpdate request on the tab:
   appendDimension adds rows or columns, updateSheetProperties with the
   fields gridProperties(columnCount, rowCount) sets both counts and drops
   the cells outside of them; the requests on other tabs and the formatting
   requests leave the grid of the tab as it is *)
ServiceBatchUpdate(st, body) ==
    IF st.exc # "None" THEN st
    ELSE IF body.request = "appendDimension"
    THEN [st EXCEPT !.grid = IF body.kind = "ROWS"
                              THEN Dims(@.rows + body.n, @.cols)
                              ELSE Dims(@.rows, @.cols + body.n)]
    ELSE IF body.request = "updateSheetProperties"
    THEN [st EXCEPT !.grid = Dims(body.rows, body.cols),
                    !.extent = Dims(Min2(@.rows, body.rows), Min2(@.cols, body.cols))]
    ELSE st

(* Workbook.batch_update (workbook.py:145) *)
batch_update(st, body) == ServiceBatchUpdate(Sent(st, "sheets.batchUpdate"), body)

(* self.workbook.batch_update(body) in a method of Tab: the property, the
   lookup of the method on the Workbook, the call *)
workbook_batch_update(st, body) ==
    batch_update(Get(Get(st, "Tab", Public("workbook")), "Workbook", Public("batch_update")),
                 body)

_update_tab_properties_skipped(st) == st

(* Tab._update_tab_properties (tab.py:143-147): the properties of the tab
   are fetched and cached *)
_update_tab_properties(st) ==
    IF st.exc # "None" THEN st
    ELSE [Sent(st, "sheets.get") EXCEPT !.properties = st.grid]

(* self._update_tab_properties() *)
self_update_tab_properties(st) ==
    _update_tab_properties(Get(st, "Tab", Private("update_tab_properties")))

(* Tab._add_rows_or_columns (tab.py:132-141) *)
_add_rows_or_columns(st, kind, n) ==
    self_update_tab_properties(
        workbook_batch_update(Get(st, "Tab", Public("tab_id")), AppendDimension(kind, n)))

(* Tab.add_rows (tab.py:158) and Tab.add_columns (tab.py:169) *)
add_rows(st, n) ==
    _add_rows_or_columns(Get(st, "Tab", Private("add_rows_or_columns")), "ROWS", n)

add_columns(st, n) ==
    _add_rows_or_columns(Get(st, "Tab", Private("add_rows_or_columns")), "COLUMNS", n)

(* Tab.align_cells (tab.py:184-200), Tab.autosize_columns (tab.py:297-307),
   Tab.format_font (tab.py:329-343), Tab.format_headers (tab.py:361-406): a
   body is built from properties of the tab and handed to batch_update *)
align_cells(st) ==
    workbook_batch_update(Get(Get(st, "Tab", Public("tab_id")), "Tab", Public("nrows")),
                          Formatting)

autosize_columns(st) ==
    workbook_batch_update(Get(Get(st, "Tab", Public("tab_id")), "Tab", Public("ncols")),
                          Formatting)

format_font(st) == workbook_batch_update(Get(st, "Tab", Public("tab_id")), Formatting)

format_headers(st, nrows) == workbook_batch_update(Get(st, "Tab", Public("tab_id")), Formatting)

(* Tab.alter_dimensions (tab.py:216-229): self.ncols and self.nrows read
   the cached properties (tab.py:112-120) *)
alter_dimensions(st, nrows, ncols) ==
    LET columnCount == Or(ncols, Get(st, "Tab", Public("ncols")).properties.cols)
        rowCount == Or(nrows, Get(st, "Tab", Public("nrows")).properties.rows)
    IN  self_update_tab_properties(
            workbook_batch_update(Get(st, "Tab", Public("tab_id")),
                                  UpdateSheetProperties(rowCount, columnCount)))

(* Tab.autoformat (tab.py:279-289): four formatting calls, the populated
   cells are fetched, the tab is cut to them.  The response of values().get
   for a tab without populated cells carries no 'values' (KeyError at line
   286) or an empty one (ValueError at line 287) *)
autoformat(st, n_header_rows) ==
    LET formatted ==
            autosize_columns(Get(
                align_cells(Get(
                    format_font(Get(
                        format_headers(Get(st, "Tab", Public("format_headers")), n_header_rows),
                        "Tab", Public("format_font"))),
                    "Tab", Public("align_cells"))),
                "Tab", Public("autosize_columns")))
        populated_cells == Sent(formatted, "values.get")
    IN  IF populated_cells.extent.rows = 0
        THEN [populated_cells EXCEPT !.exc = "KeyError or ValueError"]
        ELSE self_update_tab_properties(
                 alter_dimensions(Get(populated_cells, "Tab", Public("alter_dimensions")),
                                  populated_cells.extent.rows,
                                  populated_cells.extent.cols))

(* what the service does with the values requests: clear empties the tab,
   update writes the rows from the first cell and append below the
   populated rows; the grid grows to hold what is written *)
ServiceClear(st) ==
    IF st.exc # "None" THEN st
    ELSE [st EXCEPT !.extent = Dims(0, 0)]

ServiceWrite(st, from, nrows, ncols) ==
    IF st.exc # "None" \/ nrows = 0 \/ ncols = 0 THEN st
    ELSE [st EXCEPT !.extent = Dims(Max2(@.rows, from + nrows), Max2(@.cols, ncols)),
                    !.grid = Dims(Max2(@.rows, from + nrows), Max2(@.cols, ncols))]

(* Tab.clear_data (tab.py:315-317) *)
clear_data(st) == ServiceClear(Sent(st, "values.clear"))

(* the end of insert_data and append_data (tab.py:512-515, 257-260) *)
finish_upload(st, n_header_rows, with_autoformat) ==
    LET formatted ==
            IF with_autoformat
            THEN autoformat(Get(st, "Tab", Public("autoformat")), n_header_rows)
            ELSE st
    IN  IF formatted.exc # "None" THEN formatted
        ELSE self_update_tab_properties(formatted)

(* Tab.insert_data (tab.py:502-515) on data of an accepted shape, of
   n_header_rows rows of headers and nrows rows of values, all ncols wide *)
insert_data(st, n_header_rows, nrows, ncols, with_autoformat) ==
    finish_upload(
        ServiceWrite(Sent(clear_data(Get(st, "Tab", Public("clear_data"))), "values.update"),
                     0, n_header_rows + nrows, ncols),
        n_header_rows, with_autoformat)

(* Tab.append_data (tab.py:250-260) on such data *)
append_data(st, n_header_rows, nrows, ncols, with_autoformat) ==
    finish_upload(
        ServiceWrite(Sent(st, "values.append"), st.extent.rows, nrows, ncols),
        n_header_rows, with_autoformat)

(* Workbook.fetch_tab (workbook.py:200) and Tab.__init__ (tab.py:23-38) for
   a tab that exists: the properties of that tab are fetched *)
fetch_tab(st) ==
    Sent(Get(st, "Tab", Private("update_tab_properties")), "sheets.get")

(* Workbook.create_tab (workbook.py:162-174) and Workbook.delete_tab
   (workbook.py:185-188), for another tab of the workbook *)
create_tab(st) ==
    fetch_tab(Get(batch_update(Get(st, "Workbook", Public("batch_update")), AddSheet),
                  "Workbook", Public("fetch_tab")))

delete_tab(st) ==
    batch_update(
        Get(fetch_tab(Get(st, "Workbook", Public("fetch_tab"))),
            "Workbook", Public("batch_update")),
        DeleteSheet)

(* Bounds of the session scenario: the rows and the columns of the grid of
   the tab, and of the data uploaded *)
MaxGridRows == 2
MaxGridCols == 2

Grids == {Dims(r, c) : r \in 1..MaxGridRows, c \in 1..MaxGridCols}

(* an argument that is a number or None *)
OptionalCounts(max) == {NoneArg} \cup (0..max)

NoName == Public("")

(* the last thing that happened in the session: a call of a method with its
   arguments, a lookup of an attribute, or a resize by another client *)
Call(name, cls, attr, nrows, ncols, flag) ==
    [name |-> name, cls |-> cls, attr |-> attr, nrows |-> nrows, ncols |-> ncols,
     flag |-> flag]

NoCall == Call("", "", NoName, 0, 0, FALSE)

SessionIdle ==
    /\ grid = Dims(0, 0)
    /\ extent = Dims(0, 0)
    /\ properties = Dims(0, 0)
    /\ trace = <<>>
    /\ call = NoCall
    /\ grid_before = Dims(0, 0)
    /\ sexc = "None"

(* the Tab object has just been made: Tab.__init__ has cached the
   properties of the tab (tab.py:31) *)
SessionInit ==
    /\ grid \in Grids
    /\ extent = Dims(0, 0)
    /\ properties = grid
    /\ trace = <<>>
    /\ call = NoCall
    /\ grid_before = grid
    /\ sexc = "None"

(* what a call starts from *)
Session ==
    [grid |-> grid, extent |-> extent, properties |-> properties, trace |-> <<>>,
     exc |-> "None"]

(* the call has returned or raised: what it left *)
Left(st) ==
    /\ \E left \in {st} :
          /\ grid' = left.grid
          /\ extent' = left.extent
          /\ properties' = left.properties
          /\ trace' = left.trace
          /\ sexc' = left.exc
    /\ grid_before' = grid
    /\ UNCHANGED codec_vars
    /\ UNCHANGED rows_vars
    /\ UNCHANGED fetch_vars
    /\ UNCHANGED upload_vars
    /\ UNCHANGED label_vars
    /\ UNCHANGED helper_vars
    /\ UNCHANGED client_vars
    /\ UNCHANGED convenience_vars

(* tab.add_rows(n), tab.add_columns(n) *)
AddRows(n) ==
    /\ grid.rows + n <= MaxGridRows
    /\ call' = Call("add_rows", "Tab", Public("add_rows"), n, NoneArg, FALSE)
    /\ Left(add_rows(Get(Session, "Tab", Public("add_rows")), n))

AddColumns(n) ==
    /\ grid.cols + n <= MaxGridCols
    /\ call' = Call("add_columns", "Tab", Public("add_columns"), NoneArg, n, FALSE)
    /\ Left(add_columns(Get(Session, "Tab", Public("add_columns")), n))

(* tab.alter_dimensions(nrows, ncols) *)
AlterDimensions(nrows, ncols) ==
    /\ call' = Call("alter_dimensions", "Tab", Public("alter_dimensions"), nrows, ncols, FALSE)
    /\ Left(alter_dimensions(Get(Session, "Tab", Public("alter_dimensions")), nrows, ncols))

(* tab.autoformat(n_header_rows) *)
Autoformat(n_header_rows) ==
    /\ call' = Call("autoformat", "Tab", Public("autoformat"), n_header_rows, NoneArg, FALSE)
    /\ Left(autoformat(Get(Session, "Tab", Public("autoformat")), n_header_rows))

(* tab.insert_data(data, autoformat=with_autoformat) for data a list of
   nrows lists of ncols items: there are no headers, and data[0] exists *)
InsertData(nrows, ncols, with_autoformat) ==
    /\ call' = Call("insert_data", "Tab", Public("insert_data"), nrows, ncols, with_autoformat)
    /\ Left(insert_data(Get(Session, "Tab", Public("insert_data")),
                        0, nrows, ncols, with_autoformat))

(* tab.append_data(data, autoformat=with_autoformat) for such data *)
AppendData(nrows, ncols, with_autoformat) ==
    /\ extent.rows + nrows <= MaxGridRows
    /\ call' = Call("append_data", "Tab", Public("append_data"), nrows, ncols, with_autoformat)
    /\ Left(append_data(Get(Session, "Tab", Public("append_data")),
                        0, nrows, ncols, with_autoformat))

(* workbook.create_tab(tabname), workbook.delete_tab(tabname) *)
CreateTab ==
    /\ call' = Call("create_tab", "Workbook", Public("create_tab"), NoneArg, NoneArg, FALSE)
    /\ Left(create_tab(Get(Session, "Workbook", Public("create_tab"))))

DeleteTab ==
    /\ call' = Call("delete_tab", "Workbook", Public("delete_tab"), NoneArg, NoneArg, FALSE)
    /\ Left(delete_tab(Get(Session, "Workbook", Public("delete_tab"))))

(* getattr(obj, attr) alone, for obj a Client (which has its credentials,
   or has not yet), the Workbook or the Tab: the attribute is returned after
   what __getattribute__ did.  What a lookup does depends on nothing that
   the calls change, so the lookups are made at the start of a session *)
Lookup(cls, attr, has_credentials) ==
    /\ call = NoCall
    /\ attr \in Methods(cls) \cup NonMethods(cls)
    /\ cls # "Client" => has_credentials
    /\ call' = Call("getattr", cls, attr, NoneArg, NoneArg, has_credentials)
    /\ Left(Sent(__getattribute__(Session, cls, attr, has_credentials), "returned"))

(* another client, or another Tab object of the same tab, resizes the tab *)
OtherWriter(nrows, ncols) ==
    /\ Dims(nrows, ncols) # grid
    /\ call' = Call("other writer", "", NoName, nrows, ncols, FALSE)
    /\ Left(ServiceBatchUpdate(Session, UpdateSheetProperties(nrows, ncols)))

AllNames == UNION {Methods(cls) \cup NonMethods(cls) : cls \in Classes}

SessionNext ==
    \/ \E n \in 1..MaxGridRows : AddRows(n)
    \/ \E n \in 1..MaxGridCols : AddColumns(n)
    \/ \E nrows \in OptionalCounts(MaxGridRows), ncols \in OptionalCounts(MaxGridCols) :
          AlterDimensions(nrows, ncols)
    \/ \E n_header_rows \in 0..1 : Autoformat(n_header_rows)
    \/ \E nrows \in 1..MaxGridRows, ncols \in 0..MaxGridCols, with_autoformat \in BOOLEAN :
          InsertData(nrows, ncols, with_autoformat)
    \/ \E nrows \in 1..MaxGridRows, ncols \in 0..MaxGridCols, with_autoformat \in BOOLEAN :
          AppendData(nrows, ncols, with_autoformat)
    \/ CreateTab
    \/ DeleteTab
    \/ \E cls \in Classes, attr \in AllNames, has_credentials \in BOOLEAN :
          Lookup(cls, attr, has_credentials)
    \/ \E nrows \in 1..MaxGridRows, ncols \in 1..MaxGridCols : OtherWriter(nrows, ncols)

----------------------------------------------------------------------------
(* The client scenario: Client.fetch_workbook or Client.delete_workbook is
   called with a filename and a file_id, each None, '' or a name; when the
   id has to be looked up, _fetch_file_id lists the spreadsheets page by
   page.  The drive service answers each files().list request with some of
   the items, with or without a nextPageToken; it may also never answer. *)

Name_wb == <<119, 98>>
Name_other == <<111>>

(* the ids the drive gives to its files *)
IdOf(k) == PyStr(<<96 + k>>)

DriveFile(k, name) == [id |-> IdOf(k), name |-> name]

(* Bounds of the client scenario: the spreadsheets on the drive and the
   pages of one listing *)
MaxFiles == 2
MaxPages == 3

Drives ==
    UNION {{[k \in 1..n |-> DriveFile(k, names[k])] : names \in [1..n -> {Name_wb, Name_other}]} :
              n \in 0..MaxFiles}

(* no page token: None *)
NoToken == 0

(* a response of files().list: 'files' may be missing *)
Response(has_files, files, next) == [has_files |-> has_files, files |-> files, next |-> next]

(* response.get('files', []) (client.py:235) *)
ResponseFiles(response) == IF response.has_files THEN response.files ELSE <<>>

Accumulate_last_page(raw_info, response) == ResponseFiles(response)

(* raw_info += response.get('files', []) (client.py:235) *)
Accumulate(raw_info, response) == raw_info \o ResponseFiles(response)

(* the query of _fetch_info_on_items (client.py:210-222) for
   kind='spreadsheet', no folder and only_mine=False: the name restricts the
   items only `if name:` *)
Matching(drive, name) ==
    IF Truthy(name)
    THEN SelectSeq(drive, LAMBDA f : PyStr(f.name) = name)
    ELSE drive

(* the test of fetch_workbook and delete_workbook on their arguments
   (client.py:298-299, 331-332) *)
ArgumentsRejected(filename, file_id) == (filename = PyNone) = (file_id = PyNone)

(* what _fetch_file_id does with the matches (client.py:173-187) *)
FileIdOutcome(matches) ==
    IF Len(matches) = 1 THEN "None"
    ELSE IF Len(matches) = 0 THEN "WorkbookNotFound"
    ELSE "MultipleWorkbooksFound"

NoId == PyNone

ClientIdle ==
    /\ kpc = "idle"
    /\ k_op = ""
    /\ k_filename = PyNone
    /\ k_file_id = PyNone
    /\ k_drive = <<>>
    /\ k_lookups = <<>>
    /\ k_calls = <<>>
    /\ k_page_token = NoToken
    /\ k_raw_info = <<>>
    /\ k_todo = <<>>
    /\ k_requests = <<>>
    /\ k_responses = <<>>
    /\ k_id = NoId
    /\ k_exc = "None"

ClientInit ==
    /\ kpc = "called"
    /\ k_op \in {"fetch_workbook", "delete_workbook"}
    /\ k_filename \in {PyNone, PyStr(<<>>), PyStr(Name_wb)}
    /\ k_file_id \in {PyNone, PyStr(<<>>), IdOf(1)}
    /\ k_drive \in Drives
    /\ k_lookups = <<>>
    /\ k_calls = <<>>
    /\ k_page_token = NoToken
    /\ k_raw_info = <<>>
    /\ k_todo = <<>>
    /\ k_requests = <<>>
    /\ k_responses = <<>>
    /\ k_id = NoId
    /\ k_exc = "None"

ClientOthersUnchanged ==
    /\ UNCHANGED codec_vars
    /\ UNCHANGED rows_vars
    /\ UNCHANGED fetch_vars
    /\ UNCHANGED upload_vars
    /\ UNCHANGED label_vars
    /\ UNCHANGED helper_vars
    /\ UNCHANGED session_vars
    /\ UNCHANGED convenience_vars

(* fetch_workbook and delete_workbook up to the listing (client.py:298-301,
   331-334): the arguments are tested; `if not file_id:` starts
   _fetch_file_id(filename=filename, kind='spreadsheet'), which starts
   _fetch_info_on_items(kind=kind, name=filename) with page_token = None and
   raw_info = [] (client.py:226-227) *)
CheckArguments ==
    /\ kpc = "called"
    /\ IF ArgumentsRejected(k_filename, k_file_id)
       THEN /\ kpc' = "raised"
            /\ k_exc' = "ValueError"
            /\ UNCHANGED <<k_lookups, k_todo, k_id>>
       ELSE IF ~Truthy(k_file_id)
       THEN /\ kpc' = "request"
            /\ k_lookups' = Append(k_lookups, [filename |-> k_filename, kind |-> "spreadsheet"])
            /\ k_todo' = Matching(k_drive, k_filename)
            /\ UNCHANGED <<k_exc, k_id>>
       ELSE /\ kpc' = "resolved"
            /\ k_id' = k_file_id
            /\ UNCHANGED <<k_exc, k_lookups, k_todo>>
    /\ k_page_token' = NoToken
    /\ k_raw_info' = <<>>
    /\ UNCHANGED <<k_op, k_filename, k_file_id, k_drive, k_calls, k_requests, k_responses>>
    /\ ClientOthersUnchanged

(* the request of one turn of the loop (client.py:230-234) *)
ListRequest ==
    /\ kpc = "request"
    /\ kpc' = "waiting"
    /\ k_requests' = Append(k_requests, k_page_token)
    /\ k_calls' = Append(k_calls, "files.list")
    /\ UNCHANGED <<k_op, k_filename, k_file_id, k_drive, k_lookups, k_page_token, k_raw_info,
                   k_todo, k_responses, k_id, k_exc>>
    /\ ClientOthersUnchanged

(* the drive service answers: the next n items, under 'files' or, when there
   are none, possibly without that key; a nextPageToken when more is to
   come, and none on the page that ends the listing *)
ServiceRespond(n, has_files, has_next) ==
    /\ kpc = "waiting"
    /\ n <= Len(k_todo)
    /\ ~has_files => n = 0
    /\ has_next => Len(k_requests) < MaxPages
    /\ ~has_next => n = Len(k_todo)
    /\ kpc' = "responded"
    /\ k_responses' = Append(k_responses,
                             Response(has_files, SubSeq(k_todo, 1, n),
                                      IF has_next THEN Len(k_requests) ELSE NoToken))
    /\ k_todo' = SubSeq(k_todo, n + 1, Len(k_todo))
    /\ UNCHANGED <<k_op, k_filename, k_file_id, k_drive, k_lookups, k_calls, k_page_token,
                   k_raw_info, k_requests, k_id, k_exc>>
    /\ ClientOthersUnchanged

(* the rest of the turn (client.py:235-239): the files are added, the token
   is taken over, the loop ends when there is none *)
ListReceive ==
    /\ kpc = "responded"
    /\ LET response == k_responses[Len(k_responses)]
       IN  /\ k_raw_info' = Accumulate(k_raw_info, response)
           /\ k_page_token' = response.next
           /\ kpc' = IF response.next = NoToken THEN "listed" ELSE "request"
    /\ UNCHANGED <<k_op, k_filename, k_file_id, k_drive, k_lookups, k_calls, k_todo,
                   k_requests, k_responses, k_id, k_exc>>
    /\ ClientOthersUnchanged

(* the rest of _fetch_file_id (client.py:169-187) *)
FetchFileId ==
    /\ kpc = "listed"
    /\ k_exc' = FileIdOutcome(k_raw_info)
    /\ IF FileIdOutcome(k_raw_info) = "None"
       THEN /\ k_id' = k_raw_info[1].id
            /\ kpc' = "resolved"
       ELSE /\ k_id' = k_id
            /\ kpc' = "raised"
    /\ UNCHANGED <<k_op, k_filename, k_file_id, k_drive, k_lookups, k_calls, k_page_token,
                   k_raw_info, k_todo, k_requests, k_responses>>
    /\ ClientOthersUnchanged

(* the end of fetch_workbook (client.py:335): the Workbook of that id; and
   of delete_workbook (client.py:302): the file of that id is deleted, or
   the service reports that there is none *)
Finish ==
    /\ kpc = "resolved"
    /\ IF k_op = "fetch_workbook"
       THEN /\ kpc' = "returned"
            /\ UNCHANGED <<k_calls, k_drive, k_exc>>
       ELSE /\ k_calls' = Append(k_calls, "files.delete")
            /\ IF \E j \in 1..Len(k_drive) : k_drive[j].id = k_id
               THEN /\ k_drive' = SelectSeq(k_drive, LAMBDA f : f.id # k_id)
                    /\ kpc' = "returned"
                    /\ k_exc' = k_exc
               ELSE /\ k_drive' = k_drive
                    /\ kpc' = "raised"
                    /\ k_exc' = "HttpError"
    /\ UNCHANGED <<k_op, k_filename, k_file_id, k_lookups, k_page_token, k_raw_info, k_todo,
                   k_requests, k_responses, k_id>>
    /\ ClientOthersUnchanged

(* the steps of the client, and those of the service *)
ClientSteps ==
    \/ CheckArguments
    \/ ListRequest
    \/ ListReceive
    \/ FetchFileId
    \/ Finish

ClientNext ==
    \/ ClientSteps
    \/ \E n \in 0..MaxFiles, has_files \in BOOLEAN, has_next \in BOOLEAN :
          ServiceRespond(n, has_files, has_next)

----------------------------------------------------------------------------
(* The convenience scenario: create_tab_in_new_workbook(filename, tabname,
   emails, role, notify) makes its calls one after the other on a drive
   that gives every new workbook the tab 'Sheet1'. *)

(* an argument that is a string or a tuple of strings *)
StrArg(text) == [t |-> "str", s |-> text, items |-> <<>>]
TupleArg(items) == [t |-> "tuple", s |-> "", items |-> items]

(* Bound of the convenience scenario: the addresses in a tuple *)
MaxEmails == 2

Addresses == {"a@x", "b@x"}
Roles == {"reader", "writer"}

TuplesOf(values) ==
    UNION {{TupleArg(items) : items \in [1..n -> values]} : n \in 0..MaxEmails}

(* the calls of create_tab_in_new_workbook *)
Step(op, a, b, notify) == [op |-> op, a |-> a, b |-> b, notify |-> notify]

NoTab == ""

(* emails = [emails] if isinstance(emails, str) else emails
   (convenience.py:79) *)
EmailsList(emails) == IF emails.t = "str" THEN <<emails.s>> ELSE emails.items

RolesList_as_given(role, emails) == IF role.t = "str" THEN <<role.s>> ELSE role.items

(* roles = [role] * len(emails) if isinstance(role, str) else role
   (convenience.py:80), emails being the list of line 79 *)
RolesList(role, emails) ==
    IF role.t = "str" THEN [k \in 1..Len(emails) |-> role.s] ELSE role.items

(* zip(emails, roles) (convenience.py:82) *)
ZipPairs(emails, roles) ==
    [k \in 1..Min2(Len(emails), Len(roles)) |-> <<emails[k], roles[k]>>]

ConvenienceIdle ==
    /\ vpc = "idle"
    /\ v_tabname = ""
    /\ v_emails = TupleArg(<<>>)
    /\ v_role = StrArg("")
    /\ v_notify = FALSE
    /\ v_tabs = {}
    /\ v_steps = <<>>
    /\ v_todo = <<>>
    /\ v_result = NoTab
    /\ v_exc = "None"

ConvenienceInit ==
    /\ vpc = "called"
    /\ v_tabname \in {"Data", "Sheet1"}
    /\ v_emails \in {StrArg(a) : a \in Addresses} \cup TuplesOf(Addresses)
    /\ v_role \in {StrArg(r) : r \in Roles} \cup TuplesOf(Roles)
    /\ v_notify \in BOOLEAN
    /\ v_tabs = {}
    /\ v_steps = <<>>
    /\ v_todo = <<>>
    /\ v_result = NoTab
    /\ v_exc = "None"

ConvenienceOthersUnchanged ==
    /\ UNCHANGED codec_vars
    /\ UNCHANGED rows_vars
    /\ UNCHANGED fetch_vars
    /\ UNCHANGED upload_vars
    /\ UNCHANGED label_vars
    /\ UNCHANGED helper_vars
    /\ UNCHANGED session_vars
    /\ UNCHANGED client_vars

(* Client().create_workbook(filename) (convenience.py:67-70): the new
   workbook holds the default tab *)
CreateWorkbook ==
    /\ vpc = "called"
    /\ vpc' = "workbook"
    /\ v_steps' = Append(v_steps, Step("create_workbook", "", "", FALSE))
    /\ v_tabs' = {"Sheet1"}
    /\ UNCHANGED <<v_tabname, v_emails, v_role, v_notify, v_todo, v_result, v_exc>>
    /\ ConvenienceOthersUnchanged

(* workbook.create_tab(tabname) (convenience.py:72-75): the service refuses
   a second tab of the same title *)
CreateRequestedTab ==
    /\ vpc = "workbook"
    /\ v_steps' = Append(v_steps, Step("create_tab", v_tabname, "", FALSE))
    /\ IF v_tabname \in v_tabs
       THEN /\ vpc' = "raised"
            /\ v_exc' = "HttpError"
            /\ UNCHANGED v_tabs
       ELSE /\ vpc' = "tab"
            /\ v_tabs' = v_tabs \cup {v_tabname}
            /\ UNCHANGED v_exc
    /\ UNCHANGED <<v_tabname, v_emails, v_role, v_notify, v_todo, v_result>>
    /\ ConvenienceOthersUnchanged

(* workbook.delete_tab('Sheet1') and the two lines that make the lists
   (convenience.py:77-80) *)
DeleteDefaultTab ==
    /\ vpc = "tab"
    /\ vpc' = "sharing"
    /\ v_steps' = Append(v_steps, Step("delete_tab", "Sheet1", "", FALSE))
    /\ v_tabs' = v_tabs \ {"Sheet1"}
    /\ v_todo' = ZipPairs(EmailsList(v_emails), RolesList(v_role, EmailsList(v_emails)))
    /\ UNCHANGED <<v_tabname, v_emails, v_role, v_notify, v_result, v_exc>>
    /\ ConvenienceOthersUnchanged

(* one turn of the loop (convenience.py:82-83) *)
Share ==
    /\ vpc = "sharing"
    /\ v_todo # <<>>
    /\ v_steps' = Append(v_steps, Step("share", v_todo[1][1], v_todo[1][2], v_notify))
    /\ v_todo' = Tail(v_todo)
    /\ UNCHANGED <<vpc, v_tabname, v_emails, v_role, v_notify, v_tabs, v_result, v_exc>>
    /\ ConvenienceOthersUnchanged

(* return tab (convenience.py:85) *)
ReturnTab ==
    /\ vpc = "sharing"
    /\ v_todo = <<>>
    /\ vpc' = "returned"
    /\ v_result' = v_tabname
    /\ UNCHANGED <<v_tabname, v_emails, v_role, v_notify, v_tabs, v_steps, v_todo, v_exc>>
    /\ ConvenienceOthersUnchanged

ConvenienceNext ==
    \/ CreateWorkbook
    \/ CreateRequestedTab
    \/ DeleteDefaultTab
    \/ Share
    \/ ReturnTab

(* The specifications: each scenario runs with the others idle *)
InitCodec == CodecInit /\ RowsIdle /\ FetchIdle /\ UploadIdle /\ LabelIdle /\ HelperIdle /\ SessionIdle /\ ClientIdle /\ ConvenienceIdle

SpecCodec == InitCodec /\ [][CodecNext]_vars

InitRows == CodecIdle /\ RowsInit /\ FetchIdle /\ UploadIdle /\ LabelIdle /\ HelperIdle /\ SessionIdle /\ ClientIdle /\ ConvenienceIdle

SpecRows == InitRows /\ [][RowsNext]_vars

InitFetch == CodecIdle /\ RowsIdle /\ FetchInit /\ UploadIdle /\ LabelIdle /\ HelperIdle /\ SessionIdle /\ ClientIdle /\ ConvenienceIdle

SpecFetch == InitFetch /\ [][FetchNext]_vars

InitUpload == CodecIdle /\ RowsIdle /\ FetchIdle /\ UploadInit /\ LabelIdle /\ HelperIdle /\ SessionIdle /\ ClientIdle /\ ConvenienceIdle

SpecUpload == InitUpload /\ [][UploadNext]_vars

InitLabel == CodecIdle /\ RowsIdle /\ FetchIdle /\ UploadIdle /\ LabelInit /\ HelperIdle /\ SessionIdle /\ ClientIdle /\ ConvenienceIdle

SpecLabel == InitLabel /\ [][LabelNext]_vars

InitHelper == CodecIdle /\ RowsIdle /\ FetchIdle /\ UploadIdle /\ LabelIdle /\ HelperInit /\ SessionIdle /\ ClientIdle /\ ConvenienceIdle

SpecHelper == InitHelper /\ [][HelperNext]_vars

InitSession ==
    /\ CodecIdle /\ RowsIdle /\ FetchIdle /\ UploadIdle /\ LabelIdle /\ HelperIdle /\ SessionInit
    /\ ClientIdle /\ ConvenienceIdle

SpecSession == InitSession /\ [][SessionNext]_vars

InitClient == CodecIdle /\ RowsIdle /\ FetchIdle /\ UploadIdle /\ LabelIdle /\ HelperIdle /\ SessionIdle /\ ClientInit /\ ConvenienceIdle

(* the client takes its steps; nothing makes the service answer *)
SpecClient == InitClient /\ [][ClientNext]_vars /\ WF_vars(ClientSteps)

InitConvenience ==
    /\ CodecIdle /\ RowsIdle /\ FetchIdle /\ UploadIdle /\ LabelIdle /\ HelperIdle /\ SessionIdle
    /\ ClientIdle /\ ConvenienceInit

SpecConvenience == InitConvenience /\ [][ConvenienceNext]_vars

----------------------------------------------------------------------------
(* Properties of the label codec, checked under SpecCodec *)

(* the bijective base-26 numeral of n >= 1, digits A = 1 .. Z = 26 *)
RECURSIVE BijectiveNumeral(_)
BijectiveNumeral(n) ==
    IF n = 0 THEN <<>>
    ELSE BijectiveNumeral((n - 1) \div 26) \o <<65 + ((n - 1) % 26)>>

\* C1: for every row >= 1 and col >= 1, parsing the label of (row, col) gives
\* back (row, col): once the label has been parsed, no exception was raised
\* and the parsed index is the index the label was made from.
C1_RoundTrip ==
    cpc \in {"parsed", "index_raised"} =>
        /\ cexc = "None"
        /\ index = arg

\* C2: the label of (row, col) is the bijective base-26 numeral of col, all
\* of its characters in A..Z, followed by the decimal row.
C2_BijectiveLabel ==
    cpc \in {"labelled", "parsed", "index_raised"} =>
        /\ label = BijectiveNumeral(arg.col) \o DecimalStr(arg.row)
        /\ \A k \in 1..(Len(label) - Len(DecimalStr(arg.row))) : IsUpper(label[k])

----------------------------------------------------------------------------
(* Properties of Tab.fetch_data, checked under SpecFetch.  The cells of the
   fetch scenario decode to their raw value: an empty cell to None. *)

Decoded(k, j) == sheet[k][j].value

Populated == {k \in 1..Len(sheet) : \E j \in 1..Len(sheet[k]) : Decoded(k, j) # PyNone}

(* the length of a row without its trailing Nones *)
StrippedLen(k) ==
    LET filled == {j \in 1..Len(sheet[k]) : Decoded(k, j) # PyNone}
    IN  IF filled = {} THEN 0 ELSE Max(filled)

(* header row and data rows of a 'list' or 'df' result, as one sequence *)
KeptRows == IF headers THEN <<result.columns>> \o result.data ELSE result.data

\* C3: max_idx is the greatest index of a row holding a non-None value (None
\* when there is none); the rows returned are exactly rows 0..max_idx, each
\* holding the values of its source row (an empty row stays a row of Nones).
C3_LastPopulatedRow ==
    fpc = "returned" =>
        /\ max_idx = IF Populated = {} THEN NoneIdx ELSE Max(Populated) - 1
        /\ (Populated # {} /\ fmt \in {"list", "df"}) =>
              /\ Len(KeptRows) = Max(Populated)
              /\ \A k \in 1..Len(KeptRows) : \A j \in 1..Len(KeptRows[k]) :
                    KeptRows[k][j] =
                        IF j <= Len(sheet[k]) THEN Decoded(k, j) ELSE PyNone
        /\ (Populated # {} /\ fmt = "dict") =>
              Len(result.records) = Max(Populated) - (IF headers THEN 1 ELSE 0)

C3_Witness ==
    /\ fpc = "returned"
    /\ fmt = "list"
    /\ ~headers
    /\ Len(sheet) = 3
    /\ Populated = {2}
    /\ Len(result.data) = 2
    /\ \A j \in 1..Len(result.data[1]) : result.data[1][j] = PyNone

\* C4: every data row returned has the length W of the returned headers;
\* with headers=True W is the stripped length of the first row and that row
\* is the header; with headers=False W is the greatest stripped length of a
\* retained row and the headers are 0..W-1; rows are cut or padded with None.
C4_UniformWidth ==
    (fpc = "returned" /\ Populated # {} /\ fmt \in {"list", "df"}) =>
        LET W == IF headers THEN StrippedLen(1)
                 ELSE Max({StrippedLen(k) : k \in 1..Max(Populated)})
            first == IF headers THEN 1 ELSE 0
        IN  /\ Len(result.columns) = W
            /\ headers => \A j \in 1..W : result.columns[j] = Decoded(1, j)
            /\ ~headers => \A j \in 1..W : result.columns[j] = PyInt(j - 1)
            /\ Len(result.data) = Max(Populated) - first
            /\ \A k \in 1..Len(result.data) :
                  /\ Len(result.data[k]) = W
                  /\ \A j \in 1..W :
                        result.data[k][j] =
                            IF j <= StrippedLen(k + first)
                            THEN Decoded(k + first, j) ELSE PyNone

C4_Witness ==
    /\ fpc = "returned"
    /\ fmt = "list"
    /\ headers
    /\ Len(result.columns) = 1
    /\ Len(sheet) = 3
    /\ sheet[2] = <<>>
    /\ StrippedLen(3) = 2
    /\ Len(result.data) = 2
    /\ result.data[1] = <<PyNone>>
    /\ result.data[2] = <<Decoded(3, 1)>>

\* C5: for the same data and the same headers flag the three shapes agree:
\* the i-th mapping of the 'dict' result has one entry per header column, in
\* header order, and maps header j to cell j of row i of the 'list' result;
\* the 'df' result holds the cells and the column labels of the 'list' result.
C5_ShapesAgree ==
    (fpc = "returned" /\ Populated # {}) =>
        LET lst == fetch_data(sheet, headers, "list").result
        IN  /\ fmt = "df" => (result.columns = lst.columns /\ result.data = lst.data)
            /\ fmt = "dict" =>
                  /\ Len(result.records) = Len(lst.data)
                  /\ \A r \in 1..Len(result.records) :
                        /\ Len(result.records[r]) = Len(lst.columns)
                        /\ \A j \in 1..Len(result.records[r]) :
                              /\ result.records[r][j].key = lst.columns[j]
                              /\ result.records[r][j].value = lst.data[r][j]

----------------------------------------------------------------------------
(* Properties of Tab._process_rows, checked under SpecRows *)

(* the cell in `cell` is the one the loop has just handled *)
JustProcessed ==
    /\ cell # NoCell
    /\ \/ rpc = "raised"
       \/ rpc = "cells" /\ row_values # <<>>

Last(seq) == seq[Len(seq)]

NumericFormats == {"NUMBER", "PERCENT", "CURRENCY", "SCIENTIFIC"}
TemporalFormats == {"DATE", "TIME", "DATE_TIME"}

(* the A1 coordinate of the cell being handled when the loop raises *)
RaisedAt == <<64 + Len(row_values) + 1>> \o DecimalStr(i + 1)

\* C6: a cell whose effectiveValue is an errorValue makes _process_rows
\* raise FetchDataError, its message naming the coordinate of the cell, the
\* error type and the error message; no rows are returned.
C6_CellErrorReported ==
    (JustProcessed /\ cell.kind = "errorValue") =>
        /\ rpc = "raised"
        /\ exc.kind = "FetchDataError"
        /\ exc.coordinate = RaisedAt
        /\ exc.value = cell.value

C8_ParseFailureSwallowed ==
    (JustProcessed /\ cell.kind = "stringValue" /\ cell.value = PyStr(Text_foo)
        /\ cell.fmt \in NumericFormats) =>
        /\ rpc = "cells"
        /\ exc = NoExc
        /\ Last(row_values) = cell.value

C8_Witness ==
    /\ rpc = "cells"
    /\ cell = [kind |-> "stringValue", value |-> PyStr(Text_foo), fmt |-> "PERCENT"]
    /\ Len(row_values) = 2
    /\ Last(row_values) = PyStr(Text_foo)
    /\ Len(rows) = 1

\* C9: for a cell of kind numberValue, stringValue, boolValue or without
\* value, the conversion is the one keyed by numberFormat.type when the cell
\* has a number format and the one keyed by the kind otherwise; the format
\* wins over the kind: the number 2 is returned as the text '2' under TEXT
\* and as the float 2.0 without a format.
C9_FormatTakesPrecedence ==
    (JustProcessed /\ cell.kind # "errorValue") =>
        /\ cell_format \in TypeConversionKeys
        /\ cell.fmt \in NumberFormats => cell_format = cell.fmt
        /\ cell.fmt \notin NumberFormats =>
              cell_format = IF cell.kind = "absent" THEN "None" ELSE cell.kind
        /\ (cell.kind = "numberValue" /\ cell.value = PyInt(2)) =>
              /\ cell.fmt = "TEXT" => Last(row_values) = PyStr(Text_2)
              /\ cell.fmt = "absent" => Last(row_values) = PyFloat(2)

C9_Witness ==
    /\ rpc = "cells"
    /\ cell = [kind |-> "numberValue", value |-> PyInt(2), fmt |-> "TEXT"]
    /\ cell_format = "TEXT"
    /\ row_values = <<PyStr(Text_2)>>

\* C10 as stated: a cell whose raw value is absent or falsy (0, false, '')
\* yields None, whatever its format or kind.
C10_FalsyYieldsNone ==
    (JustProcessed /\ ~Truthy(cell.value)) =>
        /\ rpc = "cells"
        /\ Last(row_values) = PyNone

\* C10 amended: for a cell whose raw value is absent or falsy no conversion
\* is attempted and the raw value itself is appended unchanged, whatever the
\* format or kind: None for a cell without value, and 0, false and '' as
\* they are.
C10_FalsyPassesThrough ==
    (JustProcessed /\ ~Truthy(cell.value)) =>
        /\ rpc = "cells"
        /\ exc = NoExc
        /\ Last(row_values) = cell.value
        /\ cell.kind = "absent" => Last(row_values) = PyNone

C10_Witness ==
    /\ rpc = "cells"
    /\ cell = [kind |-> "numberValue", value |-> PyInt(0), fmt |-> "DATE"]
    /\ Last(row_values) = PyInt(0)

----------------------------------------------------------------------------
(* Further properties of Tab.fetch_data, checked under SpecFetch *)

\* C11: when the tab has no populated cell (no rows, or only rows of Nones)
\* fetch_data with an accepted fmt raises nothing and returns the empty
\* result of that fmt, for headers=True and headers=False alike: a DataFrame
\* without columns and rows for 'df', [] for 'dict', ([], []) for 'list'.
C11_EmptyResult ==
    (fpc \in {"returned", "raised"} /\ Populated = {}
        /\ fmt \in {"df", "dict", "list"}) =>
        /\ fpc = "returned"
        /\ fexc = "None"
        /\ result.shape = fmt
        /\ result.columns = <<>>
        /\ result.data = <<>>
        /\ result.records = <<>>

C11_Witness ==
    /\ fpc = "returned"
    /\ fmt = "list"
    /\ ~headers
    /\ Len(sheet) = 2
    /\ Len(sheet[1]) = 1
    /\ Len(sheet[2]) = 2
    /\ Populated = {}
    /\ result = [shape |-> "list", columns |-> <<>>, data |-> <<>>, records |-> <<>>]

\* C12: fetch_data called with a fmt outside 'df', 'dict', 'list' raises
\* ValueError whose message names the value passed and the three accepted
\* values, and no request has been sent to the sheets service; a call with
\* an accepted fmt sends exactly one get request.
C12_InvalidFmtBeforeFetch ==
    /\ (fpc \in {"returned", "raised"} /\ fmt \notin {"df", "dict", "list"}) =>
          /\ fpc = "raised"
          /\ fexc = "ValueError"
          /\ fexc_msg.value = fmt
          /\ fexc_msg.accepted = <<"df", "dict", "list">>
          /\ requests = <<>>
          /\ result = NoResult
    /\ (fpc \in {"returned", "raised"} /\ fmt \in {"df", "dict", "list"}) =>
          requests = <<"sheets_svc.get">>

C12_Witness ==
    /\ fpc = "raised"
    /\ fmt = "foo"
    /\ fexc = "ValueError"
    /\ requests = <<>>
    /\ Len(sheet) = 2
    /\ Populated = {1, 2}

----------------------------------------------------------------------------
(* Properties of the uploads, checked under SpecUpload *)

(* a values call has been made with the body u_body *)
BodySent == \E k \in 1..Len(u_calls) : u_calls[k] \in {"values.update", "values.append"}

(* the types of the JSON primitives: a string, a number, a boolean, null;
   not-a-number is not a JSON number *)
IsJsonPrimitive(v) ==
    /\ v.t \in {"str", "int", "float", "bool", "NoneType"}
    /\ v.t = "float" => v.s = <<>>

\* C13: the values array insert_data sends is the encoding of the header
\* rows followed by the value rows of the input, the one append_data sends
\* is the encoding of the value rows alone, the encoding being
\* _convert_nan_and_datelike_values; and every cell of the array sent is a
\* JSON primitive (string, number, boolean or null).
C13_UploadBody ==
    BodySent =>
        LET lists == _make_list_of_lists(u_data, u_index)
        IN  /\ u_op = "insert_data" =>
                  u_body = _convert_nan_and_datelike_values(lists.headers \o lists.values)
            /\ u_op = "append_data" =>
                  u_body = _convert_nan_and_datelike_values(lists.values)
            /\ \A r \in 1..Len(u_body) : \A c \in 1..Len(u_body[r]) :
                  IsJsonPrimitive(u_body[r][c])

(* the call has left with the previous data removed and the new data not
   written: values().update was the last call made, and it failed *)
ClearedNotWritten ==
    /\ u_op = "insert_data"
    /\ upc = "raised"
    /\ u_calls # <<>>
    /\ Last(u_calls) = "values.update"
    /\ u_tab # PreviousData

CountCalls(name) == Cardinality({k \in 1..Len(u_calls) : u_calls[k] = name})

\* C14: an upload is one atomic request without retry: insert_data never
\* leaves with the previous data removed and the new data not written,
\* append_data that has sent its values has made exactly one values().append
\* call, and no values call is made twice.
C14_AtomicUpload ==
    /\ ~ClearedNotWritten
    /\ (u_op = "append_data" /\ upc \in {"sent", "done"}) =>
          CountCalls("values.append") = 1
    /\ \A name \in {"values.clear", "values.update", "values.append"} :
          CountCalls(name) <= 1

(* the rows _convert_nan_and_datelike_values was applied to *)
Unencoded == IF u_op = "insert_data" THEN u_headers \o u_values ELSE u_values

AreDigits(text, from, to) == \A k \in from..to : IsDigit(text[k])

(* YYYY-MM-DD at the position `at` of a text *)
IsDateText(text, at) ==
    /\ AreDigits(text, at, at + 3) /\ text[at + 4] = 45
    /\ AreDigits(text, at + 5, at + 6) /\ text[at + 7] = 45
    /\ AreDigits(text, at + 8, at + 9)

(* HH:MM:SS at the position `at` of a text *)
IsTimeText(text, at) ==
    /\ AreDigits(text, at, at + 1) /\ text[at + 2] = 58
    /\ AreDigits(text, at + 3, at + 4) /\ text[at + 5] = 58
    /\ AreDigits(text, at + 6, at + 7)

(* the canonical text of a date, a time, a datetime *)
IsCanonical(item, v) ==
    /\ v.t = "str"
    /\ item.t = "date" => (Len(v.s) = 10 /\ IsDateText(v.s, 1))
    /\ item.t = "time" => (Len(v.s) = 8 /\ IsTimeText(v.s, 1))
    /\ item.t = "datetime" =>
          (Len(v.s) = 19 /\ IsDateText(v.s, 1) /\ v.s[11] = 32 /\ IsTimeText(v.s, 12))

\* C15: _convert_nan_and_datelike_values returns as many rows as it was
\* given, each of the length of its input row; a date, time or datetime
\* cell is replaced by its canonical text (YYYY-MM-DD, HH:MM:SS, YYYY-MM-DD
\* HH:MM:SS), a not-a-number float by None, and any other cell is the input
\* cell.
C15_EncodedCells ==
    BodySent =>
        /\ Len(u_body) = Len(Unencoded)
        /\ \A r \in 1..Len(u_body) :
              /\ Len(u_body[r]) = Len(Unencoded[r])
              /\ \A c \in 1..Len(u_body[r]) :
                    LET item == Unencoded[r][c]
                    IN  IF item = PyNaN THEN u_body[r][c] = PyNone
                        ELSE IF item.t \in {"date", "time", "datetime"}
                        THEN IsCanonical(item, u_body[r][c])
                        ELSE u_body[r][c] = item

----------------------------------------------------------------------------
(* Properties of the label codec on a caller's input *)

(* the text is, in its entirety, one or more letters followed by a decimal
   number without leading zero; nl is the number of its letters *)
IsLabelWith(text, nl) ==
    /\ nl >= 1
    /\ nl < Len(text)
    /\ \A k \in 1..nl : IsLetter(text[k])
    /\ \A k \in (nl + 1)..Len(text) : IsDigit(text[k])
    /\ text[nl + 1] # 48

IsLabel(text) == \E nl \in 1..Len(text) : IsLabelWith(text, nl)

(* the letters read as base-26 digits A = 1 .. Z = 26, most significant
   first, whatever their case *)
RECURSIVE Base26(_)
Base26(letters) ==
    IF letters = <<>> THEN 0
    ELSE 26 * Base26(SubSeq(letters, 1, Len(letters) - 1))
            + (Upper(letters[Len(letters)]) - 64)

\* C16 (checked under SpecLabel): convert_cell_label_to_index raises
\* ValueError for every value that is not a text and for every text that is
\* not, in its entirety, letters followed by a positive decimal number
\* without leading zero; for a label it returns the decimal number as the row
\* and the letters, read without regard to case as base-26 digits, as the
\* column.
C16_LabelParsedEntirely ==
    lpc \in {"parsed", "raised"} =>
        IF l_arg.t = "str" /\ IsLabel(l_arg.s)
        THEN LET nl == CHOOSE n \in 1..Len(l_arg.s) : IsLabelWith(l_arg.s, n)
             IN  /\ lpc = "parsed"
                 /\ l_index.row = DecimalInt(SubSeq(l_arg.s, nl + 1, Len(l_arg.s)))
                 /\ l_index.col = Base26(SubSeq(l_arg.s, 1, nl))
        ELSE /\ lpc = "raised"
             /\ l_exc = "ValueError"

\* C17 (checked under SpecCodec): convert_cell_index_to_label raises
\* ValueError whenever row < 1 or col < 1, 0 and negative values included,
\* and returns a label for every row >= 1 and col >= 1.
C17_IndexesAtLeastOne ==
    cpc # "input" =>
        IF arg.row < 1 \/ arg.col < 1
        THEN /\ cpc = "label_raised"
             /\ cexc = "ValueError"
             /\ label = <<>>
        ELSE /\ cpc \in {"labelled", "parsed", "index_raised"}
             /\ label # <<>>

C17_Witness ==
    /\ cpc = "label_raised"
    /\ cexc = "ValueError"
    /\ arg.row = 0
    /\ arg.col = 27

----------------------------------------------------------------------------
(* Properties of helpers._make_list_of_lists, checked under SpecUpload *)

(* _make_list_of_lists has raised: the call has left before any call to the
   service *)
ListsRaised == upc = "raised" /\ u_calls = <<>>

(* the input is a non-empty sequence of mappings *)
IsSequenceOfMappings ==
    /\ u_data.type \in {"list", "tuple"}
    /\ u_data.elems # <<>>
    /\ \A r \in 1..Len(u_data.elems) : u_data.elems[r].t = "dict"

(* the keys of the first mapping, in insertion order *)
FirstKeys == u_data.elems[1].keys

KeyPositions(elem, key) == {k \in 1..Len(elem.keys) : elem.keys[k] = key}

(* every mapping holds every key of the first *)
IsUniform ==
    \A r \in 1..Len(u_data.elems) : \A j \in 1..Len(FirstKeys) :
        KeyPositions(u_data.elems[r], FirstKeys[j]) # {}

(* one header row, the keys of the first mapping, and a row per mapping
   holding its values in the order of those keys *)
AlignedToFirstKeys ==
    /\ ~ListsRaised
    /\ u_headers = <<FirstKeys>>
    /\ Len(u_values) = Len(u_data.elems)
    /\ \A r \in 1..Len(u_values) :
          /\ Len(u_values[r]) = Len(FirstKeys)
          /\ \A j \in 1..Len(FirstKeys) :
                \E k \in KeyPositions(u_data.elems[r], FirstKeys[j]) :
                    u_values[r][j] = u_data.elems[r].cells[k]

\* C18 as stated: for every non-empty sequence of mappings
\* _make_list_of_lists returns one header row, the keys of the first mapping
\* in insertion order, and one value row per mapping whose j-th entry is
\* that mapping's value for the j-th header key.
C18_MappingsAligned ==
    (upc # "input" /\ IsSequenceOfMappings) => AlignedToFirstKeys

\* C18 amended: that holds for a non-empty sequence of mappings each of which
\* holds every key of the first, whatever the order of its own keys and
\* whatever further keys it holds; when a mapping lacks a key of the first,
\* _make_list_of_lists raises KeyError and returns nothing.
C18_UniformMappingsAligned ==
    (upc # "input" /\ IsSequenceOfMappings) =>
        IF IsUniform THEN AlignedToFirstKeys
        ELSE /\ ListsRaised
             /\ u_exc = "KeyError"
             /\ u_headers = <<>>
             /\ u_values = <<>>

C18_Witness ==
    /\ upc = "listed"
    /\ u_data.type = "list"
    /\ Len(u_data.elems) = 2
    /\ u_data.elems[1] = DictElem(<<Key_a, Key_b>>, <<PyInt(1), PyDate(42370)>>)
    /\ u_data.elems[2] = DictElem(<<Key_b, Key_a>>, <<PyInt(1), PyDate(42370)>>)
    /\ u_headers = <<<<Key_a, Key_b>>>>
    /\ u_values = <<<<PyInt(1), PyDate(42370)>>, <<PyDate(42370), PyInt(1)>>>>

(* the input is one of the three accepted shapes: a DataFrame, a non-empty
   sequence of mappings, a non-empty list of lists *)
IsAcceptedShape ==
    \/ u_data.type = "DataFrame"
    \/ IsSequenceOfMappings
    \/ /\ u_data.type = "list"
       /\ u_data.elems # <<>>
       /\ \A r \in 1..Len(u_data.elems) : u_data.elems[r].t = "list"

\* C19: for every input that is not one of the three accepted shapes (a
\* plain dict, an empty list, a tuple of lists, a list of scalars, ...)
\* _make_list_of_lists raises ValueError, and no exception of another kind.
C19_OtherShapesRejected ==
    (upc # "input" /\ ~IsAcceptedShape) =>
        /\ ListsRaised
        /\ u_exc = "ValueError"

(* the frame of a DataFrame input: its column levels, index levels, columns *)
FrameL == u_data.df.nlevels
FrameK == Len(u_data.df.index_names)
FrameC == Len(u_data.df.columns)

(* the leading entries of a header row under index=True: the names of the
   index when all its levels are named, index0.. when none is; when only
   some are named, one of the two *)
IsIndexPrefix(row) ==
    LET names == u_data.df.index_names
        named == {k \in 1..FrameK : names[k] # PyNone}
        AsNamed == \A k \in 1..FrameK : row[k] = names[k]
        AsUnnamed == \A k \in 1..FrameK : row[k] = IndexName(k - 1)
    IN  /\ named = 1..FrameK => AsNamed
        /\ named = {} => AsUnnamed
        /\ AsNamed \/ AsUnnamed

(* every header row and every value row has the width W, set off by `off`
   leading index entries: header row l holds the labels of level l, value
   row r the index values and the cells of row r *)
RowsOfWidth(W, off) ==
    /\ \A l \in 1..Len(u_headers) :
          /\ Len(u_headers[l]) = W
          /\ off > 0 => IsIndexPrefix(u_headers[l])
          /\ \A c \in 1..FrameC : u_headers[l][off + c] = u_data.df.columns[c][l]
    /\ Len(u_values) = Len(u_data.df.rows)
    /\ \A r \in 1..Len(u_values) :
          /\ Len(u_values[r]) = W
          /\ \A k \in 1..off : u_values[r][k] = u_data.df.rows[r].index[k]
          /\ \A c \in 1..FrameC : u_values[r][off + c] = u_data.df.rows[r].cells[c]

----------------------------------------------------------------------------
(* Properties of a rejected upload, checked under SpecUpload *)

\* C30: when the data passed to insert_data or append_data is not one of the
\* accepted shapes, the call leaves by an exception before clear_data and
\* before any values().update, values().append or batch_update request: no
\* call reaches the service and the tab holds the data it held before.
C30_RejectedBeforeAnyCall ==
    ~IsAcceptedShape =>
        /\ upc \in {"input", "listed", "raised"}
        /\ u_calls = <<>>
        /\ u_tab = PreviousData

----------------------------------------------------------------------------
(* Properties of the row helpers, checked under SpecHelper *)

\* C26: for every list and every new_len >= 0, _resize_row returns a list of
\* its own of length exactly new_len whose entry i is array[i] for
\* i < min(len(array), new_len) and None for every other i; the list passed
\* is left as it was.
C26_ResizeRow ==
    hpc = "resized" =>
        /\ Len(h_result) = h_new_len
        /\ \A k \in 1..h_new_len :
              h_result[k] = IF k <= Len(h_array) THEN h_array[k] ELSE PyNone
        /\ ~h_alias
        /\ h_after = h_array

C26_Witness ==
    /\ hpc = "resized"
    /\ h_array = <<PyInt(1)>>
    /\ h_new_len = 3
    /\ h_result = <<PyInt(1), PyNone, PyNone>>
    /\ h_after = <<PyInt(1)>>

(* seq is the longest prefix of whole that is empty or ends in a value that
   is not None *)
IsTrimmedPrefix(seq, whole) ==
    /\ Len(seq) <= Len(whole)
    /\ \A k \in 1..Len(seq) : seq[k] = whole[k]
    /\ seq = <<>> \/ seq[Len(seq)] # PyNone
    /\ \A k \in (Len(seq) + 1)..Len(whole) : whole[k] = PyNone

\* C27: _remove_trailing_nones returns the longest prefix of its input that
\* is empty or ends in a value that is not None: only trailing Nones are
\* removed, interior and leading Nones stay in place, an all-None or empty
\* row becomes [], and applying it twice gives what applying it once gives.
C27_TrailingNonesOnly ==
    /\ hpc \in {"trimmed", "trimmed_twice"} => IsTrimmedPrefix(h_result, h_array)
    /\ hpc = "trimmed_twice" => h_result = h_prev

C27_Witness ==
    /\ hpc = "trimmed_twice"
    /\ h_array = <<PyNone, PyInt(1), PyNone>>
    /\ h_result = <<PyNone, PyInt(1)>>
    /\ h_prev = <<PyNone, PyInt(1)>>

----------------------------------------------------------------------------
(* Claims on the session scenario *)

(* the invocations of Client._refresh_token_if_needed in the last call *)
RefreshCount ==
    Cardinality({k \in 1..Len(trace) : trace[k] = "_refresh_token_if_needed"})

(* the requests the last call sent to the service, in order *)
ServiceCalls ==
    SelectSeq(trace, LAMBDA entry : entry \notin {"_refresh_token_if_needed", "returned"})

UserFacingCalls ==
    {"add_rows", "add_columns", "alter_dimensions", "autoformat", "insert_data",
     "append_data", "create_tab", "delete_tab"}

(* C21: on Client, Workbook and Tab, the lookup of a bound method whose name
   does not start with '_' invokes Client._refresh_token_if_needed exactly
   once, before the method is returned; the lookup of a method whose name
   starts with '_' or of any other attribute invokes it zero times; on
   Client the refresh happens only when the instance has its credentials *)
C21_RefreshOnLookup ==
    call.name = "getattr" =>
        /\ sexc = "None"
        /\ trace[Len(trace)] = "returned"
        /\ RefreshCount =
               IF /\ call.attr \in Methods(call.cls)
                  /\ ~startswith_underscore(call.attr)
                  /\ call.cls = "Client" => call.flag
               THEN 1 ELSE 0

C21_Witness ==
    /\ call.name = "getattr"
    /\ call.cls = "Tab"
    /\ call.attr = Public("add_rows")
    /\ trace = <<"_refresh_token_if_needed", "returned">>

(* C22: for every single user-facing call on a Tab or Workbook,
   Client._refresh_token_if_needed is invoked exactly once between the start
   and the end of the call *)
C22_OneRefreshPerCall ==
    (call.name \in UserFacingCalls /\ sexc = "None") => RefreshCount = 1

(* C23: after alter_dimensions(nrows=n, ncols=None) the column count of the
   tab on the service equals its column count immediately before the call,
   and symmetrically for nrows=None, also when another client resized the
   tab since this Tab last fetched its properties *)
C23_NoneLeavesDimension ==
    (call.name = "alter_dimensions" /\ sexc = "None") =>
        /\ call.ncols = NoneArg => grid.cols = grid_before.cols
        /\ call.nrows = NoneArg => grid.rows = grid_before.rows

(* C28: add_rows, add_columns, alter_dimensions, autoformat, insert_data and
   append_data fetch the properties of the tab as their last service call,
   so that when one of them has returned the cached properties equal the
   dimensions held by the service; with autoformat=False insert_data and
   append_data fetch them exactly once *)
C28_PropertiesRefetchedLast ==
    (call.name \in {"add_rows", "add_columns", "alter_dimensions", "autoformat",
                    "insert_data", "append_data"} /\ sexc = "None") =>
        /\ ServiceCalls # <<>>
        /\ ServiceCalls[Len(ServiceCalls)] = "sheets.get"
        /\ properties = grid
        /\ (call.name \in {"insert_data", "append_data"} /\ ~call.flag) =>
               Len(SelectSeq(ServiceCalls, LAMBDA entry : entry = "sheets.get")) = 1

C28_Witness ==
    /\ call.name = "insert_data"
    /\ ~call.flag
    /\ sexc = "None"
    /\ grid # grid_before
    /\ properties = grid
    /\ ServiceCalls = <<"values.clear", "values.update", "sheets.get">>

----------------------------------------------------------------------------
(* Claims on the client scenario *)

(* the argument was given: it is not None *)
Given(argument) == argument # PyNone

(* the call is past the test of its arguments *)
PastArguments == kpc \notin {"idle", "called"}

(* C24: fetch_workbook and delete_workbook raise ValueError when both
   filename and file_id are given or when neither is given, before any
   request to the drive service; when only file_id is given no
   _fetch_file_id is performed; when only filename is given the id is
   resolved by exactly one _fetch_file_id(filename, kind='spreadsheet') *)
C24_FilenameOrFileId ==
    PastArguments =>
        /\ (Given(k_filename) = Given(k_file_id)) =>
               /\ kpc = "raised"
               /\ k_exc = "ValueError"
               /\ k_calls = <<>>
               /\ k_lookups = <<>>
        /\ (Given(k_file_id) /\ ~Given(k_filename)) =>
               /\ k_exc # "ValueError"
               /\ k_lookups = <<>>
        /\ (Given(k_filename) /\ ~Given(k_file_id)) =>
               /\ k_exc # "ValueError"
               /\ k_lookups = <<[filename |-> k_filename, kind |-> "spreadsheet"]>>

RECURSIVE AllFiles(_)
AllFiles(responses) ==
    IF responses = <<>> THEN <<>>
    ELSE AllFiles(SubSeq(responses, 1, Len(responses) - 1))
             \o (IF responses[Len(responses)].has_files
                 THEN responses[Len(responses)].files ELSE <<>>)

Listing == kpc \in {"request", "waiting", "responded"}

LastPageReceived ==
    /\ kpc = "responded"
    /\ k_responses[Len(k_responses)].next = NoToken

(* C29: _fetch_info_on_items sends its first files().list request with
   pageToken=None and each following one with the nextPageToken of the
   previous response, stops exactly after the first response without a
   nextPageToken, and returns the concatenation of the 'files' of all
   responses in request order, a response without 'files' contributing
   nothing; it terminates whenever the service returns a page without
   nextPageToken *)
C29_Paging ==
    /\ [](/\ \A j \in 1..Len(k_requests) :
                k_requests[j] = IF j = 1 THEN NoToken ELSE k_responses[j - 1].next
          /\ \A j \in 1..(Len(k_responses) - 1) : k_responses[j].next # NoToken
          /\ Len(k_requests) - Len(k_responses) = (IF kpc = "waiting" THEN 1 ELSE 0)
          /\ (k_lookups # <<>> /\ ~Listing) =>
                 /\ k_responses # <<>>
                 /\ k_responses[Len(k_responses)].next = NoToken
                 /\ k_raw_info = AllFiles(k_responses))
    /\ (LastPageReceived ~> kpc = "listed")

C29_Witness ==
    /\ kpc = "listed"
    /\ Len(k_responses) = 3
    /\ ~k_responses[2].has_files
    /\ k_responses[1].files # <<>>
    /\ k_responses[3].files # <<>>
    /\ Len(k_raw_info) = 2

----------------------------------------------------------------------------
(* Claims on the convenience scenario *)

(* the addresses of the call: a single string is one address *)
AddressesOf(emails) == IF emails.t = "str" THEN <<emails.s>> ELSE emails.items

(* the role of the k-th address: the single role, or the k-th of the tuple *)
RoleOf(role, k) == IF role.t = "str" THEN role.s ELSE role.items[k]

(* role is a single string or a tuple of the same size as emails *)
RoleFitsEmails ==
    v_role.t = "str" \/ Len(v_role.items) = Len(AddressesOf(v_emails))

ExpectedSteps ==
    <<Step("create_workbook", "", "", FALSE),
      Step("create_tab", v_tabname, "", FALSE),
      Step("delete_tab", "Sheet1", "", FALSE)>>
    \o [k \in 1..Len(AddressesOf(v_emails)) |->
           Step("share", AddressesOf(v_emails)[k], RoleOf(v_role, k), v_notify)]

(* C25: create_tab_in_new_workbook creates the workbook, creates the
   requested tab, deletes the default tab 'Sheet1', so that the workbook is
   never left without a tab, then shares once per address: every address
   with the single role, or the i-th address with the i-th role of a tuple
   of the same size; a single string emails is one address; the created tab
   is returned *)
C25_StepsInOrder ==
    (vpc # "idle" /\ RoleFitsEmails) =>
        /\ Len(v_steps) <= Len(ExpectedSteps)
        /\ v_steps = SubSeq(ExpectedSteps, 1, Len(v_steps))
        /\ v_steps # <<>> => v_tabs # {}
        /\ vpc = "returned" =>
               /\ v_steps = ExpectedSteps
               /\ v_result = v_tabname
               /\ v_tabs = {v_tabname}

C25_Witness ==
    /\ vpc = "returned"
    /\ v_emails = TupleArg(<<"a@x", "b@x">>)
    /\ v_role = TupleArg(<<"writer", "reader">>)
    /\ v_steps[4] = Step("share", "a@x", "writer", v_notify)
    /\ v_steps[5] = Step("share", "b@x", "reader", v_notify)

====
